---- MODULE Spec2Model ----
(***************************************************************************)
(* State tables of libsinsp as seen through the plugin table API           *)
(* (userspace/libsinsp/plugin_table_api.cpp): the table registry entry     *)
(* points, the adapter that exposes a libsinsp table to plugins            *)
(* (sinsp_table_wrapper) and the adapter that exposes a plugin table to    *)
(* libsinsp (plugin_table_wrapper).                                        *)
(***************************************************************************)
EXTENDS Integers, Sequences, FiniteSets, TLC

VARIABLES
    m_tables,            \* table_registry: name -> registered table
    m_owned_tables,      \* sinsp_plugin::m_owned_tables, per plugin
    m_accessed_tables,   \* sinsp_plugin::m_accessed_tables, per plugin
    unloaded,            \* the sinsp_plugin objects destroyed so far
    m_last_owner_err,    \* sinsp_plugin::m_last_owner_err, per plugin
    dyn_fields,          \* the host table's dynamic field definitions, by index
    m_field_accessors,   \* sinsp_table_wrapper::m_field_accessors
    entries,             \* the host table's entries: key -> entry
    heap,                \* the table_entry objects the host allocated
    written,             \* history: the value last written to each field of an entry
    p_fields,            \* the owner plugin's table: its field definitions
    p_entries,           \* the owner plugin's table: key -> entry
    p_heap,              \* the entries the owner plugin allocated
    host_freed,          \* owner-allocated entries the host handed to delete
    aborted,             \* the process died of an invalid delete
    a_fields,            \* plugin_field_infos: the definitions cached in its base
    a_accessors,         \* plugin_field_infos::m_accessors: the indexes filled
    wrappers,            \* the plugin_table_entry objects the host holds
    m_inspector,         \* libs_metrics_collector::m_inspector
    m_metrics_flags,     \* libs_metrics_collector::m_metrics_flags
    m_sinsp_stats_v2,    \* libs_metrics_collector::m_sinsp_stats_v2
    m_metrics,           \* libs_metrics_collector::m_metrics
    snapshots,           \* history: the snapshot() calls made so far
    call                 \* the boundary call that just returned

regVars == <<m_tables, m_owned_tables, m_accessed_tables, unloaded>>

fieldVars == <<dyn_fields, m_field_accessors>>

entryVars == <<entries, heap, written>>

\* the owner plugin's backing store of its table
ownerVars == <<p_fields, p_entries, p_heap>>

\* the host's adapter of the plugin's table
adapterVars == <<a_fields, a_accessors, wrappers>>

pluginVars == <<ownerVars, host_freed, aborted, adapterVars>>

\* the metrics collector (userspace/libsinsp/metrics_collector.cpp)
collectorVars == <<m_inspector, m_metrics_flags, m_sinsp_stats_v2, m_metrics, snapshots>>

\* what the registry entry points, the field calls and the entry calls on
\* the host's table leave alone
nonRegVars == <<fieldVars, entryVars, pluginVars, collectorVars>>

nonFieldVars == <<regVars, entryVars, pluginVars, collectorVars>>

nonEntryVars == <<regVars, fieldVars, pluginVars, collectorVars>>

vars == <<regVars, m_last_owner_err, fieldVars, entryVars, pluginVars, collectorVars,
          call>>

Null == "NULL"

----------------------------------------------------------------------------
(* ss_plugin_state_type and libsinsp::state::typeinfo                      *)

StateTypes ==
    {"ST_INT8", "ST_INT16", "ST_INT32", "ST_INT64", "ST_UINT8", "ST_UINT16",
     "ST_UINT32", "ST_UINT64", "ST_STRING", "ST_BOOL"}

\* a tag that is none of the enumerators: the switch's default branch
ST_BAD == "ST_BAD"

TypeInfos ==
    {"PT_INT8", "PT_INT16", "PT_INT32", "PT_INT64", "PT_UINT8", "PT_UINT16",
     "PT_UINT32", "PT_UINT64", "PT_CHARBUF", "PT_BOOL"}

typeinfo_to_state_type(i) ==
    CASE i = "PT_INT8" -> "ST_INT8"
      [] i = "PT_INT16" -> "ST_INT16"
      [] i = "PT_INT32" -> "ST_INT32"
      [] i = "PT_INT64" -> "ST_INT64"
      [] i = "PT_UINT8" -> "ST_UINT8"
      [] i = "PT_UINT16" -> "ST_UINT16"
      [] i = "PT_UINT32" -> "ST_UINT32"
      [] i = "PT_UINT64" -> "ST_UINT64"
      [] i = "PT_CHARBUF" -> "ST_STRING"
      [] i = "PT_BOOL" -> "ST_BOOL"

\* the C++ type that __PLUGIN_STATETYPE_SWITCH hands to _X, as its typeinfo;
\* Null stands for the default branch, which throws
PluginStateTypeSwitch(kt) ==
    CASE kt = "ST_INT8" -> "PT_INT8"
      [] kt = "ST_INT16" -> "PT_INT16"
      [] kt = "ST_INT32" -> "PT_INT32"
      [] kt = "ST_INT64" -> "PT_INT64"
      [] kt = "ST_UINT8" -> "PT_UINT8"
      [] kt = "ST_UINT16" -> "PT_UINT16"
      [] kt = "ST_UINT32" -> "PT_UINT32"
      [] kt = "ST_UINT64" -> "PT_UINT64"
      [] kt = "ST_STRING" -> "PT_CHARBUF"
      [] kt = "ST_BOOL" -> "PT_BOOL"
      [] OTHER -> Null

\* __CATCH_ERR_MSG: the slot after the block, given the faults raised in it
CatchErrMsg(err, raised) ==
    IF raised = <<>> THEN err ELSE raised[Len(raised)]

----------------------------------------------------------------------------
(* The table registry and its three entry points                           *)

Plugins == {"A", "B"}

HostTable == "threads"
TableNames == {HostTable, "T"}

\* the key types the entry points are driven with
KeyTypeInputs == {"ST_INT64", "ST_UINT64", ST_BAD}

NoTable == [impl |-> "none", key_info |-> Null, owner |-> Null]

NativeTable(k) == [impl |-> "native", key_info |-> k, owner |-> Null]

\* plugin_table_wrapper<KeyType>(o, i)
PluginTable(k, o) == [impl |-> "plugin", key_info |-> k, owner |-> o]

\* table_registry::get_table<KeyType>(name)
RegistryGetTable(tables, name, keyinfo) ==
    IF tables[name] = NoTable
    THEN [table |-> Null, raised |-> <<>>]
    ELSE IF tables[name].key_info # keyinfo
         THEN [table |-> Null,
               raised |-> <<"table in registry accessed with wrong key type">>]
         ELSE [table |-> name, raised |-> <<>>]

\* table_registry::add_table(t)
RegistryAddTable(tables, name, t) ==
    IF tables[name] # NoTable
    THEN [tables |-> tables,
          raised |-> <<"table added to registry multiple times">>]
    ELSE [tables |-> [tables EXCEPT ![name] = t], raised |-> <<>>]

\* the ss_plugin_table_input a plugin handed to add_table
PluginInput(o, name) == [kind |-> "plugin_input", owner |-> o, name |-> name]

\* the ss_plugin_table_input kept in m_accessed_tables[name]
AccessedInput(p, name) == [kind |-> "accessed_input", owner |-> p, name |-> name]

\* the null ss_plugin_table_t*
NullHandle == [kind |-> "null", owner |-> Null, name |-> Null]

\* no sinsp_table_wrapper under this name
NoWrapper ==
    [m_owner_plugin |-> Null, m_key_type |-> Null, m_table |-> Null,
     m_table_plugin_owner |-> Null, m_table_plugin_input |-> NullHandle]

\* sinsp_table_wrapper(p, t): the dynamic_cast that finds a plugin table
SinspTableWrapper(p, name, t) ==
    [m_owner_plugin |-> p,
     m_key_type |-> typeinfo_to_state_type(t.key_info),
     m_table |-> name,
     m_table_plugin_owner |-> IF t.impl = "plugin" THEN t.owner ELSE Null,
     m_table_plugin_input |->
        IF t.impl = "plugin" THEN PluginInput(t.owner, name) ELSE NullHandle]

\* a faulty lookup: the handles made earlier are never found
AccessedLookup_Miss(accessed, name, key_type) == NoWrapper

\* the lookup in m_accessed_tables that opens table_api_get_table
AccessedLookup(accessed, name, key_type) == accessed[name]

\* sinsp_plugin::table_api_get_table
TableApiGetTable(p, name, key_type) ==
    LET it == AccessedLookup(m_accessed_tables[p], name, key_type)
        kt == PluginStateTypeSwitch(key_type)
        got == RegistryGetTable(m_tables, name, kt)
        raised == IF it # NoWrapper THEN <<>>
                  ELSE IF kt = Null
                       THEN <<"can't convert plugin state type to typeinfo">>
                       ELSE got.raised
        made == it = NoWrapper /\ raised = <<>> /\ got.table # Null
    IN  /\ m_accessed_tables' =
              IF made
              THEN [m_accessed_tables EXCEPT
                        ![p][name] = SinspTableWrapper(p, name, m_tables[name])]
              ELSE m_accessed_tables
        /\ m_last_owner_err' =
              [m_last_owner_err EXCEPT ![p] = CatchErrMsg(@, raised)]
        /\ call' = [op |-> "get_table", owner |-> p, name |-> name,
                    key_type |-> key_type, raised |-> raised,
                    created |-> made, rc |-> Null, infos |-> {},
                    ret |-> IF it # NoWrapper \/ made
                            THEN AccessedInput(p, name) ELSE NullHandle]
        /\ UNCHANGED <<m_tables, m_owned_tables, unloaded, nonRegVars>>

\* a faulty constructor: the declared key type is not looked at
KeyTypeMismatch_Never(k, declared) == FALSE

\* plugin_table_wrapper constructor:
\* if (m_input->key_type != typeinfo_to_state_type(t))
KeyTypeMismatch(k, declared) == declared # typeinfo_to_state_type(k)

\* new plugin_table_wrapper<KeyType>(o, i), where i declares a key type
PluginTableWrapper(k, declared, o) ==
    IF KeyTypeMismatch(k, declared)
    THEN [table |-> NoTable,
          raised |-> <<"invalid key type for plugin-owned table">>]
    ELSE [table |-> PluginTable(k, o), raised |-> <<>>]

\* host code builds the adapter for key type k from a plugin's description
\* and lets it go
ConstructAdapter(p, k, declared) ==
    LET made == PluginTableWrapper(k, declared, p) IN
    /\ call' = [op |-> "plugin_table_wrapper", owner |-> p, name |-> Null,
                key_type |-> declared, native |-> k, raised |-> made.raised,
                created |-> made.table # NoTable, ret |-> NullHandle,
                infos |-> {}, rc |-> Null]
    /\ UNCHANGED <<collectorVars, regVars, m_last_owner_err, nonRegVars>>

\* sinsp_plugin::table_api_add_table
TableApiAddTable(p, name, key_type) ==
    LET kt == PluginStateTypeSwitch(key_type)
        t == PluginTableWrapper(kt, key_type, p)
        added == RegistryAddTable(m_tables, name, t.table)
        raised == IF kt = Null
                  THEN <<"can't convert plugin state type to typeinfo">>
                  ELSE IF t.raised # <<>> THEN t.raised
                  ELSE added.raised
    IN  /\ m_tables' = IF raised = <<>> THEN added.tables ELSE m_tables
        /\ m_owned_tables' =
              IF raised = <<>>
              THEN [m_owned_tables EXCEPT ![p] = @ \cup {name}]
              ELSE m_owned_tables
        /\ m_last_owner_err' =
              [m_last_owner_err EXCEPT ![p] = CatchErrMsg(@, raised)]
        /\ call' = [op |-> "add_table", owner |-> p, name |-> name,
                    key_type |-> key_type, raised |-> raised,
                    created |-> FALSE, ret |-> NullHandle, infos |-> {},
                    rc |-> IF raised = <<>> THEN "SUCCESS" ELSE "FAILURE"]
        /\ UNCHANGED <<m_accessed_tables, unloaded, nonRegVars>>

\* a faulty ss_plugin_table_info: the key type is not converted
TableInfo_RawKey(name, t) == [name |-> name, key_type |-> t.key_info]

\* the ss_plugin_table_info table_api_list_tables fills for a table
TableInfo(name, t) ==
    [name |-> name, key_type |-> typeinfo_to_state_type(t.key_info)]

RECURSIVE TableInfos(_, _)

\* the loop of table_api_list_tables over table_registry::tables(): one
\* push_back for every table of the given names
TableInfos(tables, names) ==
    IF names = {} THEN <<>>
    ELSE LET n == CHOOSE x \in names : TRUE
         IN <<TableInfo(n, tables[n])>> \o TableInfos(tables, names \ {n})

\* sinsp_plugin::table_api_list_tables
TableApiListTables(p) ==
    /\ call' = [op |-> "list_tables", owner |-> p, name |-> Null,
                key_type |-> Null, raised |-> <<>>, created |-> FALSE,
                ret |-> NullHandle, rc |-> Null,
                infos |-> TableInfos(m_tables,
                                     {x \in TableNames : m_tables[x] # NoTable})]
    /\ UNCHANGED <<collectorVars, regVars, m_last_owner_err, nonRegVars>>

NoCall == [op |-> "none", owner |-> Null, name |-> Null, key_type |-> Null,
           raised |-> <<>>, created |-> FALSE, ret |-> NullHandle, rc |-> Null,
           infos |-> {}]

----------------------------------------------------------------------------
(* Fields of a host-owned table, through sinsp_table_wrapper               *)

\* the plugin that holds the sinsp_table_wrapper under study
Caller == "B"

FieldNames == {"comm", "x", "y"}

\* the field types the boundary calls are driven with
FieldTypeInputs == {"ST_INT64", "ST_STRING", ST_BAD}

\* the types the host defines dynamic fields with
NativeFieldTypes == {"PT_INT64", "PT_CHARBUF"}

\* static_struct::field_infos of the host table: fixed at construction
StaticFields == [n \in {"comm"} |-> [info |-> "PT_CHARBUF", readonly |-> FALSE]]

NoAccessor == [dynamic |-> FALSE, data_type |-> Null, index |-> -1]

\* t->m_table->static_fields().find(name) != end()
IsStaticField(name) == name \in DOMAIN StaticFields

\* t->m_table->dynamic_fields()->fields().find(name): its position, 0 for end()
DynFind(dyn, name) ==
    IF \E i \in 1..Len(dyn) : dyn[i].name = name
    THEN CHOOSE i \in 1..Len(dyn) : dyn[i].name = name
    ELSE 0

\* dynamic_struct::field_infos::add_field
DynAddField(dyn, name, info) ==
    LET i == DynFind(dyn, name) IN
    IF i # 0
    THEN IF dyn[i].info # info
         THEN [dyn |-> dyn,
               raised |-> <<"multiple definitions of dynamic field with different types">>]
         ELSE [dyn |-> dyn, raised |-> <<>>]
    ELSE [dyn |-> Append(dyn, [name |-> name, info |-> info]), raised |-> <<>>]

\* an accessor object on the heap: new static_struct::field_accessor<_type>
\* or new dynamic_struct::field_accessor<_type>, _type picked by the switch
\* on data_type
NewAccessor(dynamic, data_type) ==
    [dynamic |-> dynamic, type |-> PluginStateTypeSwitch(data_type)]

\* a faulty destructor: every accessor is deleted as a dynamic one
DeletedAs_Dynamic(w) ==
    [dynamic |-> TRUE, type |-> PluginStateTypeSwitch(w.data_type)]

\* ~sinsp_table_wrapper: the class and the _type an accessor is deleted as
DeletedAs(w) ==
    [dynamic |-> w.dynamic, type |-> PluginStateTypeSwitch(w.data_type)]

\* ~sinsp_table_wrapper: the deletes made, one for each cached accessor
DestroyAccessors(acc) ==
    [n \in {x \in DOMAIN acc : acc[x] # NoAccessor} |-> DeletedAs(acc[n])]

\* get_field, first block: the accessor already cached under the name
CachedAccessorHit(acc, name, data_type) == acc[name] # NoAccessor

\* sinsp_table_wrapper::get_field on a host-owned table
GetField(acc, dyn, name, data_type) ==
    LET cached == CachedAccessorHit(acc, name, data_type)
        fixed == IsStaticField(name)
        di == DynFind(dyn, name)
        b1 == IF fixed /\ di # 0
              THEN <<"field is defined as both static and dynamic">> ELSE <<>>
        staticOk == fixed /\ data_type = typeinfo_to_state_type(StaticFields[name].info)
        b2 == IF fixed /\ ~staticOk
              THEN <<"incompatible data types for field">> ELSE <<>>
        dynOk == di # 0 /\ data_type = typeinfo_to_state_type(dyn[di].info)
        b3 == IF di # 0 THEN <<"incompatible data types for field">>
              ELSE <<"undefined field">>
    IN  IF cached THEN [ret |-> name, acc |-> acc, raised |-> <<>>, made |-> <<>>]
        ELSE IF staticOk
        THEN [ret |-> name, raised |-> b1,
              acc |-> [acc EXCEPT ![name] =
                          [dynamic |-> FALSE, data_type |-> data_type, index |-> -1]],
              made |-> <<NewAccessor(FALSE, data_type)>>]
        ELSE IF dynOk
        THEN [ret |-> name, raised |-> b1 \o b2,
              acc |-> [acc EXCEPT ![name] =
                          [dynamic |-> TRUE, data_type |-> data_type, index |-> di - 1]],
              made |-> <<NewAccessor(TRUE, data_type)>>]
        ELSE [ret |-> Null, acc |-> acc, raised |-> b1 \o b2 \o b3, made |-> <<>>]

\* a faulty add_field: the check for static names left out
AddFieldStaticGuard_Missing(name) == FALSE

\* add_field: the check that refuses a name already defined as static
AddFieldStaticGuard(name) == IsStaticField(name)

\* a faulty add_field: the accessor get_field found is not handed back
AddFieldReturn_Null(got) == Null

\* add_field: return get_field(_t, name, data_type)
AddFieldReturn(got) == got.ret

\* sinsp_table_wrapper::add_field on a host-owned table; msgs are the
\* messages stored in the owner's slot, raised the faults among them
AddField(acc, dyn, name, data_type) ==
    LET kt == PluginStateTypeSwitch(data_type)
        added == DynAddField(dyn, name, kt)
        got == GetField(acc, added.dyn, name, data_type)
    IN  IF AddFieldStaticGuard(name)
        THEN [ret |-> Null, acc |-> acc, dyn |-> dyn, raised |-> <<>>,
              msgs |-> <<"can't add dynamic field already defined as static">>,
              made |-> <<>>]
        ELSE IF kt = Null
        THEN [ret |-> Null, acc |-> acc, dyn |-> dyn,
              raised |-> <<"can't convert plugin state type to typeinfo">>,
              msgs |-> <<"can't convert plugin state type to typeinfo">>,
              made |-> <<>>]
        ELSE IF added.raised # <<>>
        THEN [ret |-> Null, acc |-> acc, dyn |-> dyn,
              raised |-> added.raised, msgs |-> added.raised, made |-> <<>>]
        ELSE [ret |-> AddFieldReturn(got), acc |-> got.acc, dyn |-> added.dyn,
              raised |-> got.raised, msgs |-> got.raised, made |-> got.made]

\* a faulty list_fields: the loop over the dynamic fields left out
ListFields_StaticOnly(dyn) ==
    [i \in 1..Cardinality(DOMAIN StaticFields) |->
        LET n == CHOOSE x \in DOMAIN StaticFields : TRUE IN
        [name |-> n,
         field_type |-> typeinfo_to_state_type(StaticFields[n].info),
         read_only |-> StaticFields[n].readonly]]

\* sinsp_table_wrapper::list_fields on a host-owned table: m_field_list
ListFields(dyn) ==
    [i \in 1..(Cardinality(DOMAIN StaticFields) + Len(dyn)) |->
        IF i <= Cardinality(DOMAIN StaticFields)
        THEN LET n == CHOOSE x \in DOMAIN StaticFields : TRUE IN
             [name |-> n,
              field_type |-> typeinfo_to_state_type(StaticFields[n].info),
              read_only |-> StaticFields[n].readonly]
        ELSE LET d == dyn[i - Cardinality(DOMAIN StaticFields)] IN
             [name |-> d.name,
              field_type |-> typeinfo_to_state_type(d.info),
              read_only |-> FALSE]]

FieldCall(op, name, data_type, ret, raised, infos) ==
    [op |-> op, name |-> name, data_type |-> data_type, ret |-> ret,
     raised |-> raised, infos |-> infos]

GetFieldStep ==
    \E n \in FieldNames, dt \in FieldTypeInputs :
        LET r == GetField(m_field_accessors, dyn_fields, n, dt) IN
        /\ m_field_accessors' = r.acc
        /\ m_last_owner_err' =
              [m_last_owner_err EXCEPT ![Caller] = CatchErrMsg(@, r.raised)]
        /\ call' = FieldCall("get_table_field", n, dt, r.ret, r.raised, r.made)
        /\ UNCHANGED <<nonFieldVars, dyn_fields>>

AddFieldStep ==
    \E n \in FieldNames, dt \in FieldTypeInputs :
        LET r == AddField(m_field_accessors, dyn_fields, n, dt) IN
        /\ m_field_accessors' = r.acc
        /\ dyn_fields' = r.dyn
        /\ m_last_owner_err' =
              [m_last_owner_err EXCEPT ![Caller] = CatchErrMsg(@, r.msgs)]
        /\ call' = FieldCall("add_table_field", n, dt, r.ret, r.raised, r.made)
        /\ UNCHANGED nonFieldVars

ListFieldsStep ==
    /\ call' = FieldCall("list_table_fields", Null, Null, Null, <<>>,
                         ListFields(dyn_fields))
    /\ UNCHANGED <<nonFieldVars, fieldVars, m_last_owner_err>>

\* the caller's handle to the host's table is released: table_input_deleter
\* deletes the sinsp_table_wrapper, whose destructor deletes the accessors
TeardownStep ==
    /\ m_accessed_tables[Caller][HostTable] # NoWrapper
    /\ m_accessed_tables' = [m_accessed_tables EXCEPT ![Caller][HostTable] = NoWrapper]
    /\ m_field_accessors' = [n \in FieldNames |-> NoAccessor]
    /\ call' = FieldCall("teardown", Null, Null, Null, <<>>,
                         DestroyAccessors(m_field_accessors))
    /\ UNCHANGED <<m_tables, m_owned_tables, unloaded, entryVars, pluginVars, collectorVars,
                   dyn_fields, m_last_owner_err>>

\* the host defines a dynamic field on its own table, not through the API
HostDefineFieldStep ==
    \E n \in FieldNames, i \in NativeFieldTypes :
        LET r == DynAddField(dyn_fields, n, i) IN
        /\ r.raised = <<>>
        /\ dyn_fields' = r.dyn
        /\ call' = FieldCall("host_define_field", n, typeinfo_to_state_type(i),
                             Null, <<>>, <<>>)
        /\ UNCHANGED <<nonFieldVars, m_field_accessors, m_last_owner_err>>


----------------------------------------------------------------------------
(* Entries of a host-owned table, through sinsp_table_wrapper              *)

MaxEntries == 2

EntryIds == 1..MaxEntries

\* the keys the calls are driven with
Keys == {1, 2}

\* no entry: the null ss_plugin_table_entry_t*, or a key the table lacks
NoEntry == 0

\* what a read or a copy through an invalid object or pointer may yield
Garbage == "<garbage>"

\* the values a field of the given type is written with
ValueInputs(info) ==
    CASE info = "PT_CHARBUF" -> {"", "a"}
      [] info = "PT_BOOL" -> {FALSE, TRUE}
      [] OTHER -> {0, 1}

\* a value-initialized field
DefaultValue(info) ==
    CASE info = "PT_CHARBUF" -> ""
      [] info = "PT_BOOL" -> FALSE
      [] OTHER -> 0

\* the member of ss_plugin_state_data that _X names for a type
UnionMember(kt) ==
    CASE kt = "ST_INT8" -> "s8"
      [] kt = "ST_INT16" -> "s16"
      [] kt = "ST_INT32" -> "s32"
      [] kt = "ST_INT64" -> "s64"
      [] kt = "ST_UINT8" -> "u8"
      [] kt = "ST_UINT16" -> "u16"
      [] kt = "ST_UINT32" -> "u32"
      [] kt = "ST_UINT64" -> "u64"
      [] kt = "ST_STRING" -> "str"
      [] kt = "ST_BOOL" -> "b"
      [] OTHER -> Null

\* an ss_plugin_state_data whose caller set the given member
StateData(member, v) == [member |-> member, v |-> <<v>>]

\* reading a member of the union: the value its caller stored there
ReadMember(data, member) ==
    IF data.member = member THEN data.v[1] ELSE Garbage

UnusedEntry == [st |-> "unused", static |-> <<>>, dynamic |-> <<>>]

\* the order static fields are laid out in
StaticOrder == <<"comm">>

StaticSlot(name) == CHOOSE i \in 1..Len(StaticOrder) : StaticOrder[i] = name

\* table::new_entry: a detached entry with value-initialized fields
NewEntry(dyn) ==
    [st |-> "detached",
     static |-> [i \in 1..Len(StaticOrder) |->
                    <<DefaultValue(StaticFields[StaticOrder[i]].info)>>],
     dynamic |-> [i \in 1..Len(dyn) |-> <<DefaultValue(dyn[i].info)>>]]

\* delete of a table_entry: its fields are gone with it
Deleted(e) == [st |-> "destroyed", static |-> <<>>, dynamic |-> <<>>]

\* table<KeyType>::get_entry; a key that is none of the keys in use is a
\* key the table does not hold
NativeGetEntry(ents, key) == IF key \in Keys THEN ents[key] ELSE NoEntry

\* table<KeyType>::add_entry: the table takes the entry, and drops the one
\* the key held
NativeAddEntry(ents, hp, key, e) ==
    [entries |-> IF key \in Keys THEN [ents EXCEPT ![key] = e] ELSE ents,
     heap |-> [x \in EntryIds |->
                 IF x = NativeGetEntry(ents, key) THEN Deleted(hp[x])
                 ELSE IF x = e /\ hp[x].st = "detached"
                 THEN [hp[x] EXCEPT !.st = "inserted"]
                 ELSE hp[x]]]

\* table<KeyType>::erase_entry
NativeEraseEntry(ents, hp, key) ==
    IF NativeGetEntry(ents, key) = NoEntry
    THEN [ok |-> FALSE, entries |-> ents, heap |-> hp]
    ELSE [ok |-> TRUE,
          entries |-> [ents EXCEPT ![key] = NoEntry],
          heap |-> [hp EXCEPT ![ents[key]] = Deleted(@)]]

\* table<KeyType>::clear_entries
NativeClearEntries(ents, hp) ==
    [entries |-> [k \in Keys |-> NoEntry],
     heap |-> [x \in EntryIds |->
                 IF \E k \in Keys : ents[k] = x THEN Deleted(hp[x]) ELSE hp[x]]]

\* table<KeyType>::entries_count
NativeEntriesCount(ents) == Cardinality({k \in Keys : ents[k] # NoEntry})

\* the value write_entry_field hands to the entry: for a dynamic field the
\* union member is reinterpreted as an object of the field's C++ type, for a
\* static field it is converted to it
WrittenValues(a, in) ==
    LET v == ReadMember(in, UnionMember(a.data_type)) IN
    IF a.dynamic /\ a.data_type = "ST_STRING" THEN {v, Garbage} ELSE {v}

\* the value read_entry_field leaves in *out: convert_types of a string
\* stores c_str() of its argument, for a dynamic field a local copy that is
\* gone when the call returns
ReadValues(a, stored) ==
    IF a.dynamic /\ a.data_type = "ST_STRING" THEN {stored, Garbage} ELSE {stored}

\* the field of an entry an accessor designates
FieldValue(e, a, name) ==
    IF a.dynamic THEN e.dynamic[a.index + 1][1] ELSE e.static[StaticSlot(name)][1]

SetFieldValue(e, a, name, v) ==
    IF a.dynamic THEN [e EXCEPT !.dynamic[a.index + 1] = <<v>>]
    ELSE [e EXCEPT !.static[StaticSlot(name)] = <<v>>]

\* sinsp_table_wrapper::write_entry_field on a host-owned table
WriteEntryField(hp, e, name, in, v) ==
    LET a == m_field_accessors[name] IN
    IF PluginStateTypeSwitch(a.data_type) = Null
    THEN [rc |-> "FAILURE", heap |-> hp,
          raised |-> <<"can't convert plugin state type to typeinfo">>]
    ELSE IF ~a.dynamic /\ StaticFields[name].readonly
    THEN [rc |-> "FAILURE", heap |-> hp,
          raised |-> <<"can't set a read-only static struct field">>]
    ELSE [rc |-> "SUCCESS", raised |-> <<>>,
          heap |-> [hp EXCEPT ![e] = SetFieldValue(@, a, name, v)]]

EntryCall(op, key, entry, field, data, ret, rc, raised) ==
    [op |-> op, key |-> key, entry |-> entry, field |-> field, data |-> data,
     ret |-> ret, rc |-> rc, raised |-> raised]

NoData == StateData(Null, 0)

\* a key none of the callers used
UnusedKey == Cardinality(Keys) + 1

\* reading the key from a member of the union: the key its caller stored
\* there, some other key if the caller stored it in another member
ReadKey(data, member) ==
    IF data.member = member THEN data.v[1] ELSE UnusedKey

\* a faulty dispatch: the key is read as a signed 64-bit integer whatever
\* the table's key type
KeyMember_Int64 == "s64"

\* the member the key is read from: the _dtype of the case that
\* __PLUGIN_STATETYPE_SWITCH(t->m_key_type) takes
KeyMember == UnionMember(m_accessed_tables[Caller][HostTable].m_key_type)

\* the ss_plugin_state_data a caller passes for a key: it sets the member
\* of the key type the table was registered with
CallerKey(k) ==
    StateData(UnionMember(typeinfo_to_state_type(m_tables[HostTable].key_info)), k)

\* entries the caller may still hold a handle to
Live(e) == heap[e].st \in {"detached", "inserted"}

\* sinsp_table_wrapper::create_table_entry
CreateEntryStep ==
    /\ \E e \in EntryIds : heap[e].st = "unused"
    /\ LET e == CHOOSE x \in EntryIds :
                   /\ heap[x].st = "unused"
                   /\ \A y \in EntryIds : heap[y].st = "unused" => x <= y
       IN /\ heap' = [heap EXCEPT ![e] = NewEntry(dyn_fields)]
          /\ call' = EntryCall("create_table_entry", NoEntry, NoEntry, Null,
                               NoData, e, Null, <<>>)
    /\ UNCHANGED <<nonEntryVars, entries, written, m_last_owner_err>>

\* sinsp_table_wrapper::destroy_table_entry, on a detached entry
DestroyEntryStep ==
    \E e \in EntryIds :
        /\ heap[e].st = "detached"
        /\ heap' = [heap EXCEPT ![e] = Deleted(@)]
        /\ call' = EntryCall("destroy_table_entry", NoEntry, e, Null, NoData,
                             NoEntry, Null, <<>>)
        /\ UNCHANGED <<nonEntryVars, entries, written, m_last_owner_err>>

\* sinsp_table_wrapper::add_entry, with a detached entry
AddEntryStep ==
    \E k \in Keys, e \in EntryIds :
        LET key == CallerKey(k)
            r == NativeAddEntry(entries, heap, ReadKey(key, KeyMember), e)
        IN  /\ heap[e].st = "detached"
            /\ entries' = r.entries
            /\ heap' = r.heap
            /\ call' = EntryCall("add_table_entry", k, e, Null, key, e, Null, <<>>)
            /\ UNCHANGED <<nonEntryVars, written, m_last_owner_err>>

\* sinsp_table_wrapper::add_entry, with an entry the caller no longer owns:
\* the pointer goes to a unique_ptr and to the table as any other
AddEntryAgainStep ==
    \E k \in Keys, e \in EntryIds :
        LET key == CallerKey(k)
            r == NativeAddEntry(entries, heap, ReadKey(key, KeyMember), e)
        IN  /\ heap[e].st \in {"inserted", "destroyed"}
            /\ entries' = r.entries
            /\ heap' = r.heap
            /\ call' = EntryCall("add_table_entry", k, e, Null, key, e, Null, <<>>)
            /\ UNCHANGED <<nonEntryVars, written, m_last_owner_err>>

\* the fault a table's add_entry ends with when it refuses the entry
AddEntryRefused == "table refused the entry"

\* sinsp_table_wrapper::add_entry when the table's add_entry throws: the
\* unique_ptr made from the caller's pointer goes away with the entry it
\* holds, the macro stores the message and the call returns NULL
AddEntryFailsStep ==
    \E k \in Keys, e \in EntryIds :
        LET key == CallerKey(k) IN
        /\ heap[e].st = "detached"
        /\ heap' = [heap EXCEPT ![e] = Deleted(@)]
        /\ m_last_owner_err' =
              [m_last_owner_err EXCEPT
                  ![Caller] = CatchErrMsg(@, <<AddEntryRefused>>)]
        /\ call' = EntryCall("add_table_entry", k, e, Null, key, NoEntry, Null,
                             <<AddEntryRefused>>)
        /\ UNCHANGED <<nonEntryVars, entries, written>>

\* sinsp_table_wrapper::get_entry
GetEntryStep ==
    \E k \in Keys :
        LET key == CallerKey(k) IN
        /\ call' = EntryCall("get_table_entry", k, NoEntry, Null, key,
                             NativeGetEntry(entries, ReadKey(key, KeyMember)),
                             Null, <<>>)
        /\ UNCHANGED <<nonEntryVars, entryVars, m_last_owner_err>>

\* a faulty erase_entry: it reports success whatever the table answered
EraseRc_Success(erased) == "SUCCESS"

\* sinsp_table_wrapper::erase_entry: SS_PLUGIN_SUCCESS if the table erased
\* the key, SS_PLUGIN_FAILURE otherwise
EraseRc(erased) == IF erased THEN "SUCCESS" ELSE "FAILURE"

\* sinsp_table_wrapper::erase_entry
EraseEntryStep ==
    \E k \in Keys :
        LET key == CallerKey(k)
            r == NativeEraseEntry(entries, heap, ReadKey(key, KeyMember))
        IN  /\ entries' = r.entries
            /\ heap' = r.heap
            /\ m_last_owner_err' =
                  IF r.ok THEN m_last_owner_err
                  ELSE [m_last_owner_err EXCEPT ![Caller] = "table entry not found"]
            /\ call' = EntryCall("erase_table_entry", k, NoEntry, Null, key, NoEntry,
                                 EraseRc(r.ok), <<>>)
            /\ UNCHANGED <<nonEntryVars, written>>

\* a faulty clear: it reports success without clearing the table
HostClear_Skipped(ents, hp) == [rc |-> "SUCCESS", entries |-> ents, heap |-> hp]

\* sinsp_table_wrapper::clear on a host-owned table: clear_entries(), then
\* SS_PLUGIN_SUCCESS
HostClear(ents, hp) ==
    [rc |-> "SUCCESS",
     entries |-> NativeClearEntries(ents, hp).entries,
     heap |-> NativeClearEntries(ents, hp).heap]

\* sinsp_table_wrapper::clear
ClearStep ==
    LET r == HostClear(entries, heap) IN
    /\ entries' = r.entries
    /\ heap' = r.heap
    /\ call' = EntryCall("clear_table", NoEntry, NoEntry, Null, NoData, NoEntry,
                         r.rc, <<>>)
    /\ UNCHANGED <<nonEntryVars, written, m_last_owner_err>>

\* sinsp_table_wrapper::get_size
GetSizeStep ==
    /\ call' = EntryCall("get_table_size", NoEntry, NoEntry, Null, NoData,
                         NativeEntriesCount(entries), Null, <<>>)
    /\ UNCHANGED <<nonEntryVars, entryVars, m_last_owner_err>>

\* sinsp_table_wrapper::write_entry_field
WriteEntryFieldStep ==
    \E e \in EntryIds, n \in FieldNames :
        /\ Live(e)
        /\ m_field_accessors[n] # NoAccessor
        /\ \E x \in ValueInputs(PluginStateTypeSwitch(m_field_accessors[n].data_type)) :
            LET in == StateData(UnionMember(m_field_accessors[n].data_type), x) IN
            \E v \in WrittenValues(m_field_accessors[n], in) :
                LET r == WriteEntryField(heap, e, n, in, v) IN
                /\ heap' = r.heap
                /\ written' = IF r.rc = "SUCCESS"
                              THEN [written EXCEPT ![e][n] = <<x>>] ELSE written
                /\ m_last_owner_err' =
                      [m_last_owner_err EXCEPT ![Caller] = CatchErrMsg(@, r.raised)]
                /\ call' = EntryCall("write_entry_field", NoEntry, e, n, in,
                                     NoEntry, r.rc, r.raised)
        /\ UNCHANGED <<nonEntryVars, entries>>

\* sinsp_table_wrapper::read_entry_field
ReadEntryFieldStep ==
    \E e \in EntryIds, n \in FieldNames :
        /\ Live(e)
        /\ m_field_accessors[n] # NoAccessor
        /\ \E v \in ReadValues(m_field_accessors[n],
                               FieldValue(heap[e], m_field_accessors[n], n)) :
            call' = EntryCall("read_entry_field", NoEntry, e, n,
                              StateData(UnionMember(m_field_accessors[n].data_type), v),
                              NoEntry, "SUCCESS", <<>>)
        /\ UNCHANGED <<nonEntryVars, entryVars, m_last_owner_err>>

----------------------------------------------------------------------------
(* A plugin-owned table: the owner's backing store, the handle another     *)
(* plugin holds on it, and the host's adapter (plugin_table_wrapper)       *)

\* the table plugin A registered and plugin B accesses
PluginTableName == "T"

OwnerPlugin == "A"

MaxOwnerEntries == 2

OwnerEntryIds == 1..MaxOwnerEntries

PluginFieldNames == {"u"}

\* the types plugin fields are defined with
PluginFieldTypes == {"ST_UINT64", "ST_STRING"}

\* the values plugin fields are written with
OwnerValues == {1}

\* the values the owner writes to its fields on its own
OwnersOwnValues == {2}

\* what the owner's get_last_error returns after one of its functions failed
OwnerLastError == "owner plugin error"

UnusedOwnerEntry == [st |-> "unused", vals |-> [n \in PluginFieldNames |-> 0]]

\* the caller's sinsp_table_wrapper of the plugin's table
PluginTableHandle == m_accessed_tables[Caller][PluginTableName]

\* if (t->m_table_plugin_input)
Forwarded(w) == w.m_table_plugin_input # NullHandle

\* the owner's fields.list_table_fields
OwnerListFields(pf) == pf

\* the position of a name in the owner's field list, 0 if it has none
OwnerFindField(pf, name) ==
    IF \E i \in 1..Len(pf) : pf[i].name = name
    THEN CHOOSE i \in 1..Len(pf) : pf[i].name = name
    ELSE 0

\* the owner's fields.add_table_field; ok is whether the owner accepts
OwnerAddField(pf, name, ft, ok) ==
    LET i == OwnerFindField(pf, name) IN
    IF ~ok \/ (i # 0 /\ pf[i].field_type # ft)
    THEN [ok |-> FALSE, fields |-> pf]
    ELSE IF i # 0 THEN [ok |-> TRUE, fields |-> pf]
    ELSE [ok |-> TRUE, fields |-> Append(pf, [name |-> name, field_type |-> ft])]

\* the owner's reader.get_table_entry
OwnerGetEntry(pe, key) == pe[key]

\* the owner's reader.get_table_size
OwnerGetSize(pe) == Cardinality({k \in Keys : pe[k] # NoEntry})

\* the owner's reader.read_entry_field
OwnerReadField(ph, e, name) == ph[e].vals[name]

\* the owner's writer.create_table_entry
OwnerCreateEntry(ph, ok) ==
    IF ok /\ \E e \in OwnerEntryIds : ph[e].st = "unused"
    THEN LET e == CHOOSE x \in OwnerEntryIds :
                     /\ ph[x].st = "unused"
                     /\ \A y \in OwnerEntryIds : ph[y].st = "unused" => x <= y
         IN [ret |-> e, heap |-> [ph EXCEPT ![e].st = "detached"]]
    ELSE [ret |-> NoEntry, heap |-> ph]

\* the owner's writer.destroy_table_entry
OwnerDestroyEntry(ph, e) == [ph EXCEPT ![e] = [UnusedOwnerEntry EXCEPT !.st = "destroyed"]]

\* the owner's writer.add_table_entry
OwnerAddEntry(pe, ph, key, e, ok) ==
    IF ~ok THEN [ret |-> NoEntry, entries |-> pe, heap |-> ph]
    ELSE [ret |-> e,
          entries |-> [pe EXCEPT ![key] = e],
          heap |-> [x \in OwnerEntryIds |->
                      IF x = e THEN [ph[x] EXCEPT !.st = "inserted"]
                      ELSE IF x = pe[key] THEN OwnerDestroyEntry(ph, x)[x]
                      ELSE ph[x]]]

\* the owner's writer.erase_table_entry
OwnerEraseEntry(pe, ph, key, ok) ==
    IF ~ok \/ pe[key] = NoEntry
    THEN [ok |-> FALSE, entries |-> pe, heap |-> ph]
    ELSE [ok |-> TRUE,
          entries |-> [pe EXCEPT ![key] = NoEntry],
          heap |-> OwnerDestroyEntry(ph, pe[key])]

\* the owner's writer.clear_table
OwnerClear(pe, ph, ok) ==
    IF ~ok THEN [ok |-> FALSE, entries |-> pe, heap |-> ph]
    ELSE [ok |-> TRUE,
          entries |-> [k \in Keys |-> NoEntry],
          heap |-> [x \in OwnerEntryIds |->
                      IF \E k \in Keys : pe[k] = x
                      THEN OwnerDestroyEntry(ph, x)[x] ELSE ph[x]]]

\* the owner's writer.write_entry_field
OwnerWriteField(ph, e, name, v, ok) ==
    IF ~ok THEN [ok |-> FALSE, heap |-> ph]
    ELSE [ok |-> TRUE, heap |-> [ph EXCEPT ![e].vals[name] = v]]

PluginCall(op, key, entry, field, value, ret, rc) ==
    [op |-> op, key |-> key, entry |-> entry, field |-> field, value |-> value,
     ret |-> ret, rc |-> rc]

\* m_last_owner_err after a forwarded call: the owner's error on failure
ForwardedErr(failed) ==
    IF failed THEN [m_last_owner_err EXCEPT ![Caller] = OwnerLastError]
    ELSE m_last_owner_err

\* the ss_plugin_rc values an owner's function answers with
OwnerReturnCodes == {"SUCCESS", "FAILURE", "NOT_SUPPORTED"}

\* the forwarded calls' check of the owner's return code:
\* if (ret == SS_PLUGIN_FAILURE)
ForwardedRcFailed(rc) == rc = "FAILURE"

\* a faulty add_entry: it answers without calling the owner
ForwardAddEntry_Dropped(pe, ph, key, e, ok) ==
    [ret |-> IF ok THEN e ELSE NoEntry, entries |-> pe, heap |-> ph]

\* sinsp_table_wrapper::add_entry on a plugin-owned table
ForwardAddEntry(pe, ph, key, e, ok) == OwnerAddEntry(pe, ph, key, e, ok)

\* what the handle's calls on a plugin-owned table leave alone
nonOwnerVars ==
    <<regVars, fieldVars, entryVars, host_freed, aborted, adapterVars, collectorVars>>

\* sinsp_table_wrapper::create_table_entry on a plugin-owned table
FwdCreateEntryStep ==
    \E ok \in BOOLEAN :
        LET r == OwnerCreateEntry(p_heap, ok) IN
        /\ ~aborted /\ Forwarded(PluginTableHandle)
        /\ p_heap' = r.heap
        /\ m_last_owner_err' = ForwardedErr(r.ret = NoEntry)
        /\ call' = PluginCall("create_table_entry", NoEntry, NoEntry, Null, 0,
                              r.ret, Null)
        /\ UNCHANGED <<nonOwnerVars, p_fields, p_entries>>

\* sinsp_table_wrapper::destroy_table_entry on a plugin-owned table: the
\* owner destroys the entry, then the switch on m_key_type hands the same
\* pointer to a unique_ptr<table_entry>, whose delete is undefined
FwdDestroyEntryStep ==
    \E e \in OwnerEntryIds, crash \in BOOLEAN :
        LET deleted == PluginStateTypeSwitch(PluginTableHandle.m_key_type) # Null IN
        /\ ~aborted /\ Forwarded(PluginTableHandle)
        /\ p_heap[e].st = "detached"
        /\ p_heap' = OwnerDestroyEntry(p_heap, e)
        /\ host_freed' = IF deleted THEN host_freed \cup {e} ELSE host_freed
        /\ aborted' = (deleted /\ crash)
        /\ m_last_owner_err' =
              [m_last_owner_err EXCEPT ![Caller] =
                  CatchErrMsg(@, IF deleted THEN <<>>
                                 ELSE <<"can't convert plugin state type to typeinfo">>)]
        /\ call' = PluginCall("destroy_table_entry", NoEntry, e, Null, 0,
                              NoEntry, Null)
        /\ UNCHANGED <<collectorVars, regVars, fieldVars, entryVars, adapterVars, p_fields, p_entries>>

FwdAddEntryStep ==
    \E k \in Keys, e \in OwnerEntryIds, ok \in BOOLEAN :
        LET r == ForwardAddEntry(p_entries, p_heap, k, e, ok) IN
        /\ ~aborted /\ Forwarded(PluginTableHandle)
        /\ p_heap[e].st = "detached"
        /\ p_entries' = r.entries
        /\ p_heap' = r.heap
        /\ m_last_owner_err' = ForwardedErr(r.ret = NoEntry)
        /\ call' = PluginCall("add_table_entry", k, e, Null, 0, r.ret,
                              IF r.ret = NoEntry THEN "FAILURE" ELSE "SUCCESS")
        /\ UNCHANGED <<nonOwnerVars, p_fields>>

\* sinsp_table_wrapper::get_entry on a plugin-owned table
FwdGetEntryStep ==
    \E k \in Keys :
        LET ret == OwnerGetEntry(p_entries, k) IN
        /\ ~aborted /\ Forwarded(PluginTableHandle)
        /\ m_last_owner_err' = ForwardedErr(ret = NoEntry)
        /\ call' = PluginCall("get_table_entry", k, NoEntry, Null, 0, ret, Null)
        /\ UNCHANGED <<nonOwnerVars, ownerVars>>

\* sinsp_table_wrapper::erase_entry on a plugin-owned table
FwdEraseEntryStep ==
    \E k \in Keys, rc \in OwnerReturnCodes :
        LET r == OwnerEraseEntry(p_entries, p_heap, k, rc = "SUCCESS")
            ret == IF r.ok THEN "SUCCESS" ELSE IF rc = "SUCCESS" THEN "FAILURE" ELSE rc
        IN
        /\ ~aborted /\ Forwarded(PluginTableHandle)
        /\ p_entries' = r.entries
        /\ p_heap' = r.heap
        /\ m_last_owner_err' = ForwardedErr(ForwardedRcFailed(ret))
        /\ call' = PluginCall("erase_table_entry", k, NoEntry, Null, 0, NoEntry, ret)
        /\ UNCHANGED <<nonOwnerVars, p_fields>>

\* sinsp_table_wrapper::clear on a plugin-owned table
FwdClearStep ==
    \E rc \in OwnerReturnCodes :
        LET r == OwnerClear(p_entries, p_heap, rc = "SUCCESS") IN
        /\ ~aborted /\ Forwarded(PluginTableHandle)
        /\ p_entries' = r.entries
        /\ p_heap' = r.heap
        /\ m_last_owner_err' = ForwardedErr(ForwardedRcFailed(rc))
        /\ call' = PluginCall("clear_table", NoEntry, NoEntry, Null, 0, NoEntry, rc)
        /\ UNCHANGED <<nonOwnerVars, p_fields>>

\* sinsp_table_wrapper::add_field on a plugin-owned table
FwdAddFieldStep ==
    \E n \in PluginFieldNames, ft \in PluginFieldTypes, ok \in BOOLEAN :
        LET r == OwnerAddField(p_fields, n, ft, ok) IN
        /\ ~aborted /\ Forwarded(PluginTableHandle)
        /\ p_fields' = r.fields
        /\ m_last_owner_err' = ForwardedErr(~r.ok)
        /\ call' = PluginCall("add_table_field", NoEntry, NoEntry, n, ft,
                              IF r.ok THEN n ELSE Null,
                              IF r.ok THEN "SUCCESS" ELSE "FAILURE")
        /\ UNCHANGED <<nonOwnerVars, p_entries, p_heap>>

\* sinsp_table_wrapper::write_entry_field on a plugin-owned table
FwdWriteFieldStep ==
    \E e \in OwnerEntryIds, n \in PluginFieldNames, v \in OwnerValues,
       rc \in OwnerReturnCodes :
        LET r == OwnerWriteField(p_heap, e, n, v, rc = "SUCCESS") IN
        /\ ~aborted /\ Forwarded(PluginTableHandle)
        /\ p_heap[e].st \in {"detached", "inserted"}
        /\ OwnerFindField(p_fields, n) # 0
        /\ p_heap' = r.heap
        /\ m_last_owner_err' = ForwardedErr(ForwardedRcFailed(rc))
        /\ call' = PluginCall("write_entry_field", NoEntry, e, n, v, NoEntry, rc)
        /\ UNCHANGED <<nonOwnerVars, p_fields, p_entries>>

\* sinsp_table_wrapper::read_entry_field on a plugin-owned table
FwdReadFieldStep ==
    \E e \in OwnerEntryIds, n \in PluginFieldNames, rc \in OwnerReturnCodes :
        /\ ~aborted /\ Forwarded(PluginTableHandle)
        /\ p_heap[e].st \in {"detached", "inserted"}
        /\ OwnerFindField(p_fields, n) # 0
        /\ m_last_owner_err' = ForwardedErr(ForwardedRcFailed(rc))
        /\ call' = PluginCall("read_entry_field", NoEntry, e, n,
                              IF rc = "SUCCESS" THEN OwnerReadField(p_heap, e, n)
                              ELSE 0,
                              NoEntry, rc)
        /\ UNCHANGED <<nonOwnerVars, ownerVars>>

\* sinsp_table_wrapper::get_size on a plugin-owned table; -1 stands for
\* (uint64_t) -1
FwdGetSizeStep ==
    \E ok \in BOOLEAN :
        LET ret == IF ok THEN OwnerGetSize(p_entries) ELSE -1 IN
        /\ ~aborted /\ Forwarded(PluginTableHandle)
        /\ m_last_owner_err' = ForwardedErr(ret = -1)
        /\ call' = PluginCall("get_table_size", NoEntry, NoEntry, Null, ret,
                              NoEntry, Null)
        /\ UNCHANGED <<nonOwnerVars, ownerVars>>

\* sinsp_table_wrapper::list_fields on a plugin-owned table; the answer is
\* the number of fields listed, -1 for a null list
FwdListFieldsStep ==
    \E ok \in BOOLEAN :
        LET ret == IF ok THEN Len(OwnerListFields(p_fields)) ELSE -1 IN
        /\ ~aborted /\ Forwarded(PluginTableHandle)
        /\ m_last_owner_err' = ForwardedErr(ret = -1)
        /\ call' = PluginCall("list_table_fields", NoEntry, NoEntry, Null, ret,
                              NoEntry, Null)
        /\ UNCHANGED <<nonOwnerVars, ownerVars>>

\* the indexes m_accessors can hold
AccessorIndexes == 0..(Cardinality(PluginFieldNames) - 1)

\* the typeinfos the host defines fields of a plugin's table with
AdapterFieldInfos == {PluginStateTypeSwitch(t) : t \in PluginFieldTypes}

\* plugin_field_infos::fields, the loop over the owner's list: every listed
\* field goes to the base class's add_field, from position i on
\* a faulty refresh: the definitions are rebuilt from the owner's list, last
\* field first
RefreshDefinitions_Rebuilt(af, res, i) ==
    [dyn |-> [j \in 1..Len(res) |->
                [name |-> res[Len(res) + 1 - j].name,
                 info |-> PluginStateTypeSwitch(res[Len(res) + 1 - j].field_type)]],
     raised |-> <<>>]

RECURSIVE RefreshDefinitions(_, _, _)
RefreshDefinitions(af, res, i) ==
    IF i > Len(res) THEN [dyn |-> af, raised |-> <<>>]
    ELSE LET kt == PluginStateTypeSwitch(res[i].field_type)
             r == DynAddField(af, res[i].name, kt)
         IN  IF kt = Null
             THEN [dyn |-> af,
                   raised |-> <<"can't convert plugin state type to typeinfo">>]
             ELSE IF r.raised # <<>> THEN r
             ELSE RefreshDefinitions(r.dyn, res, i + 1)

\* a call of one of the owner's field functions, with its arguments
ForeignField(f, e, name, ft, v) ==
    [f |-> f, key |-> NoEntry, entry |-> e, value |-> v,
     field |-> name, field_type |-> ft]

\* the owner's get_table_field, called for each index of is in turn
RECURSIVE GetFieldCalls(_, _)
GetFieldCalls(af, is) ==
    IF is = {} THEN <<>>
    ELSE LET i == CHOOSE x \in is : \A y \in is : x <= y IN
         <<ForeignField("get_table_field", NoEntry, af[i + 1].name,
                        typeinfo_to_state_type(af[i + 1].info), 0)>>
             \o GetFieldCalls(af, is \ {i})

\* a faulty fields(): the owner's failure to list its fields goes unnoticed
ListFailureRaises_Never(listok) == FALSE

\* plugin_field_infos::fields: if (res == NULL) throw
ListFailureRaises(listok) == ~listok

\* a faulty fields(): an accessor is asked for whether one is held or not
MissingAccessors_All(dyn, aa) == 0..(Len(dyn) - 1)

\* plugin_field_infos::fields: if (m_accessors[f.index()] == nullptr)
MissingAccessors(dyn, aa) == {i \in 0..(Len(dyn) - 1) : i \notin aa}

\* a faulty fields(): the handles the owner returned are not kept
FilledAccessors_Dropped(aa, filled) == aa

\* plugin_field_infos::fields: m_accessors[f.index()] = facc
FilledAccessors(aa, filled) == aa \cup filled

\* a faulty fields(): the listed fields are walked on every call
CountsDiffer_Always(res, af) == TRUE

\* plugin_field_infos::fields: if (nfields != ds::field_infos::fields().size())
CountsDiffer(res, af) == Len(res) # Len(af)

\* plugin_field_infos::fields; listok is whether the owner's list_table_fields
\* answers, got the indexes the owner's get_table_field answers for; the
\* definitions are walked in index order
AdapterFields(af, aa, pf, listok, got) ==
    LET res == OwnerListFields(pf)
        list == <<ForeignField("list_table_fields", NoEntry, Null, Null, 0)>>
        walked == IF listok /\ CountsDiffer(res, af) THEN Len(res) ELSE 0
        refreshed == IF CountsDiffer(res, af) THEN RefreshDefinitions(af, res, 1)
                     ELSE [dyn |-> af, raised |-> <<>>]
        missing == MissingAccessors(refreshed.dyn, aa)
        refused == missing \ got
        first == CHOOSE x \in refused : \A y \in refused : x <= y
        asked == {i \in missing : i <= first}
    IN  IF ListFailureRaises(listok)
        THEN [fields |-> af, accessors |-> aa,
              raised |-> <<"plugin table list fields error: ", OwnerLastError>>,
              foreign |-> list, failed |-> TRUE, walked |-> walked]
        ELSE IF refreshed.raised # <<>>
        THEN [fields |-> refreshed.dyn, accessors |-> aa, raised |-> refreshed.raised,
              foreign |-> list, failed |-> ~listok, walked |-> walked]
        ELSE IF refused # {}
        THEN [fields |-> refreshed.dyn,
              accessors |-> FilledAccessors(aa, asked \ {first}),
              raised |-> <<"plugin table get field error: ", OwnerLastError>>,
              foreign |-> list \o GetFieldCalls(refreshed.dyn, asked),
              failed |-> TRUE, walked |-> walked]
        ELSE [fields |-> refreshed.dyn, accessors |-> FilledAccessors(aa, missing),
              raised |-> <<>>,
              foreign |-> list \o GetFieldCalls(refreshed.dyn, missing),
              failed |-> ~listok, walked |-> walked]

\* plugin_field_infos::add_field
AdapterAddField(af, aa, pf, name, info, addok, listok, got) ==
    LET added == OwnerAddField(pf, name, typeinfo_to_state_type(info), addok)
        add == <<ForeignField("add_table_field", NoEntry, name,
                              typeinfo_to_state_type(info), 0)>>
        f == AdapterFields(af, aa, added.fields, listok, got)
        own == DynAddField(f.fields, name, info)
    IN  IF ~added.ok
        THEN [owner |-> pf, fields |-> af, accessors |-> aa,
              raised |-> <<"plugin table list fields error: ", OwnerLastError>>,
              foreign |-> add, failed |-> TRUE]
        ELSE IF f.raised # <<>>
        THEN [owner |-> added.fields, fields |-> f.fields,
              accessors |-> f.accessors, raised |-> f.raised,
              foreign |-> add \o f.foreign, failed |-> f.failed]
        ELSE [owner |-> added.fields, fields |-> own.dyn,
              accessors |-> f.accessors, raised |-> own.raised,
              foreign |-> add \o f.foreign, failed |-> f.failed]

\* what a call on the adapter's field definitions did
AdapterFieldCall(op, field, value, raised, foreign, failed) ==
    [op |-> op, key |-> NoEntry, entry |-> NoEntry, wrapper |-> 0, field |-> field,
     value |-> value, ret |-> Null, raised |-> raised, foreign |-> foreign,
     failed |-> failed, rc |-> IF raised = <<>> THEN "SUCCESS" ELSE "FAILURE"]

\* the host reads the fields of the plugin's table through its adapter
AdapterFieldsWith(indexes) ==
    \E listok \in BOOLEAN, got \in SUBSET indexes :
        LET r == AdapterFields(a_fields, a_accessors, p_fields, listok, got) IN
        /\ ~aborted
        /\ m_tables[PluginTableName].impl = "plugin"
        /\ a_fields' = r.fields
        /\ a_accessors' = r.accessors
        /\ call' = AdapterFieldCall("fields", Null, r.walked, r.raised, r.foreign,
                                    r.failed)
        /\ UNCHANGED <<collectorVars, regVars, fieldVars, entryVars, ownerVars, host_freed,
                       aborted, wrappers, m_last_owner_err>>

\* the host adds a field to the plugin's table through its adapter
AdapterAddFieldWith(names, indexes) ==
    \E n \in names, i \in AdapterFieldInfos,
       addok \in BOOLEAN, listok \in BOOLEAN, got \in SUBSET indexes :
        LET r == AdapterAddField(a_fields, a_accessors, p_fields, n, i,
                                 addok, listok, got) IN
        /\ ~aborted
        /\ m_tables[PluginTableName].impl = "plugin"
        /\ p_fields' = r.owner
        /\ a_fields' = r.fields
        /\ a_accessors' = r.accessors
        /\ call' = AdapterFieldCall("add_field", n, typeinfo_to_state_type(i),
                                    r.raised, r.foreign, r.failed)
        /\ UNCHANGED <<collectorVars, regVars, fieldVars, entryVars, p_entries, p_heap,
                       host_freed, aborted, wrappers, m_last_owner_err>>

AdapterFieldsStep == AdapterFieldsWith(AccessorIndexes)

AdapterAddFieldStep == AdapterAddFieldWith(PluginFieldNames, AccessorIndexes)

\* a plugin table with room for a second field
WideFieldNames == PluginFieldNames \cup {"v"}

WideAccessorIndexes == 0..(Cardinality(WideFieldNames) - 1)

AdapterWideFieldsStep == AdapterFieldsWith(WideAccessorIndexes)

AdapterWideAddFieldStep == AdapterAddFieldWith(WideFieldNames, WideAccessorIndexes)

\* the owner defines a field of its table on its own
OwnerDefinesFieldStep ==
    \E n \in WideFieldNames, ft \in PluginFieldTypes :
        LET r == OwnerAddField(p_fields, n, ft, TRUE) IN
        /\ ~aborted
        /\ r.ok /\ r.fields # p_fields
        /\ p_fields' = r.fields
        /\ call' = AdapterFieldCall("owner_define_field", n, ft, <<>>, <<>>, FALSE)
        /\ UNCHANGED <<collectorVars, regVars, fieldVars, entryVars, p_entries, p_heap, host_freed,
                       aborted, adapterVars, m_last_owner_err>>

(* Entries of the plugin's table as the host holds them: plugin_table_entry *)

MaxWrappers == 2

WrapperIds == 1..MaxWrappers

\* no plugin_table_entry object in this place
NoWrapperObject == [live |-> FALSE, m_entry |-> NoEntry, m_destroy_entry |-> FALSE]

\* plugin_table_entry(o, i, fields, e, destroy)
PluginTableEntry(e, destroy) ==
    [live |-> TRUE, m_entry |-> e, m_destroy_entry |-> destroy]

\* a call of one of the owner's functions, with its arguments
Foreign(f, key, e, v) == [f |-> f, key |-> key, entry |-> e, value |-> v]

\* what an adapter call did: the wrapper it was given or it returned, the
\* value it returned, the fault it raised, the owner's functions it called
\* and whether one of them signalled failure
AdapterCall(op, key, wrapper, value, ret, raised, foreign, failed) ==
    [op |-> op, key |-> key, wrapper |-> wrapper, value |-> value, ret |-> ret,
     raised |-> raised, foreign |-> foreign, failed |-> failed,
     rc |-> IF raised = <<>> THEN "SUCCESS" ELSE "FAILURE"]

\* a faulty check of an owner's answer: every answer passes for a success
OwnerFailed_Never(ok) == FALSE

\* the adapter's check of the owner's answer: res == (uint64_t) -1,
\* res != SS_PLUGIN_SUCCESS, res == NULL
OwnerFailed(ok) == ~ok

\* a faulty destructor: it calls the owner's destroy whatever the flag says
DestroysOnDrop_Always(w) == TRUE

\* plugin_table_entry::~plugin_table_entry: if (m_destroy_entry)
DestroysOnDrop(w) == w.m_destroy_entry

\* the destructor's effect on the owner's entries and the call it makes
DropWrapper(ph, w) ==
    IF DestroysOnDrop(w)
    THEN [heap |-> OwnerDestroyEntry(ph, w.m_entry),
          foreign |-> <<Foreign("destroy_table_entry", NoEntry, w.m_entry, 0)>>]
    ELSE [heap |-> ph, foreign |-> <<>>]

\* a faulty copy: the check of the source's flag left out
CopyRefused_Never(w) == FALSE

\* plugin_table_entry copy constructor and copy assignment:
\* if (o.m_destroy_entry) throw
CopyRefused(w) == w.m_destroy_entry

\* what the adapter's entry calls leave alone
nonWrapperVars ==
    <<collectorVars, regVars, fieldVars, entryVars, host_freed, aborted, a_fields, a_accessors,
      p_fields, m_last_owner_err>>

\* a place for a new plugin_table_entry object
FreeWrapper(w) == ~wrappers[w].live


\* the lowest free place for a plugin_table_entry object
NewWrapperId ==
    CHOOSE w \in WrapperIds :
        FreeWrapper(w) /\ \A x \in WrapperIds : FreeWrapper(x) => w <= x

AdapterUsable ==
    /\ ~aborted
    /\ m_tables[PluginTableName].impl = "plugin"

\* plugin_table_wrapper::new_entry
AdapterNewEntryStep ==
    \E ok \in BOOLEAN :
        LET r == OwnerCreateEntry(p_heap, ok)
            w == NewWrapperId
            made == r.ret # NoEntry
        IN  /\ AdapterUsable
            /\ \E x \in WrapperIds : FreeWrapper(x)
            /\ p_heap' = r.heap
            /\ wrappers' = IF made
                           THEN [wrappers EXCEPT ![w] = PluginTableEntry(r.ret, TRUE)]
                           ELSE wrappers
            /\ call' = AdapterCall("new_entry", NoEntry, IF made THEN w ELSE 0, 0,
                                   r.ret,
                                   IF OwnerFailed(made) THEN <<OwnerLastError>> ELSE <<>>,
                                   <<Foreign("create_table_entry", NoEntry, NoEntry, 0)>>,
                                   ~made)
            /\ UNCHANGED <<nonWrapperVars, p_entries>>

\* plugin_table_wrapper::get_entry
AdapterGetEntryStep ==
    \E k \in Keys :
        LET res == OwnerGetEntry(p_entries, k)
            w == NewWrapperId
        IN  /\ AdapterUsable
            /\ \E x \in WrapperIds : FreeWrapper(x)
            /\ wrappers' = IF res # NoEntry
                           THEN [wrappers EXCEPT ![w] = PluginTableEntry(res, FALSE)]
                           ELSE wrappers
            /\ call' = AdapterCall("get_entry", k, IF res # NoEntry THEN w ELSE 0, 0,
                                   res, <<>>,
                                   <<Foreign("get_table_entry", k, NoEntry, 0)>>,
                                   res = NoEntry)
            /\ UNCHANGED <<nonWrapperVars, p_entries, p_heap>>

\* plugin_table_wrapper::add_entry, with the unique_ptr new_entry returned;
\* the entry is dropped with the unique_ptr when the call throws
AdapterAddEntryStep ==
    \E k \in Keys, w \in WrapperIds, ok \in BOOLEAN :
        LET e == wrappers[w].m_entry
            r == OwnerAddEntry(p_entries, p_heap, k, e, ok)
            done == r.ret # NoEntry
            dropped == DropWrapper(r.heap, wrappers[w])
        IN  /\ AdapterUsable
            /\ wrappers[w].live /\ wrappers[w].m_destroy_entry
            /\ p_heap[e].st = "detached"
            /\ p_entries' = r.entries
            /\ p_heap' = IF done THEN r.heap ELSE dropped.heap
            /\ wrappers' = IF done
                           THEN [wrappers EXCEPT ![w] = PluginTableEntry(r.ret, FALSE)]
                           ELSE [wrappers EXCEPT ![w] = NoWrapperObject]
            /\ call' = AdapterCall("add_entry", k, w, 0, r.ret,
                                   IF OwnerFailed(done) THEN <<OwnerLastError>> ELSE <<>>,
                                   <<Foreign("add_table_entry", k, e, 0)>>
                                       \o (IF done THEN <<>> ELSE dropped.foreign),
                                   ~done)
            /\ UNCHANGED nonWrapperVars

\* a plugin_table_entry goes out of scope: ~plugin_table_entry
AdapterDropStep ==
    \E w \in WrapperIds :
        LET dropped == DropWrapper(p_heap, wrappers[w]) IN
        /\ AdapterUsable
        /\ wrappers[w].live
        /\ p_heap' = dropped.heap
        /\ wrappers' = [wrappers EXCEPT ![w] = NoWrapperObject]
        /\ call' = AdapterCall("drop", NoEntry, w, wrappers[w].m_destroy_entry,
                               wrappers[w].m_entry, <<>>, dropped.foreign, FALSE)
        /\ UNCHANGED <<nonWrapperVars, p_entries>>

\* plugin_table_entry move constructor (into a free place) and move
\* assignment (onto a live object)
AdapterMoveStep ==
    \E src \in WrapperIds, dst \in WrapperIds :
        /\ AdapterUsable
        /\ src # dst
        /\ wrappers[src].live
        /\ wrappers' = [wrappers EXCEPT
                           ![dst] = PluginTableEntry(wrappers[src].m_entry,
                                                     wrappers[src].m_destroy_entry),
                           ![src].m_destroy_entry = FALSE]
        /\ call' = AdapterCall("move", NoEntry, src, dst, wrappers[src].m_entry,
                               <<>>, <<>>, FALSE)
        /\ UNCHANGED <<nonWrapperVars, p_entries, p_heap>>

\* what a copy or a move of a plugin_table_entry leaves alone
nonCopyVars ==
    <<collectorVars, regVars, fieldVars, entryVars, host_freed, a_fields, a_accessors,
      ownerVars, m_last_owner_err>>

\* plugin_table_entry copy constructor (into a free place) and copy
\* assignment (onto a live object); the assignment operator ends without a
\* return statement, which is undefined once the copy was made
AdapterCopyStep ==
    \E src \in WrapperIds, dst \in WrapperIds, crash \in BOOLEAN :
        LET refused == CopyRefused(wrappers[src]) IN
        /\ AdapterUsable
        /\ src # dst
        /\ wrappers[src].live
        /\ wrappers' = IF refused THEN wrappers
                       ELSE [wrappers EXCEPT
                                ![dst] = PluginTableEntry(wrappers[src].m_entry,
                                                          wrappers[src].m_destroy_entry)]
        /\ aborted' = (~refused /\ wrappers[dst].live /\ crash)
        /\ call' = AdapterCall("copy", NoEntry, src, dst, wrappers[src].m_entry,
                               IF refused
                               THEN <<"plugin_table_entry can't be copied while being owner of an entry pointer">>
                               ELSE <<>>,
                               <<>>, FALSE)
        /\ UNCHANGED nonCopyVars

\* plugin_table_wrapper::foreach_entry
ForeachEntry(pe) ==
    [raised |-> <<"operation 'foreach' not supported by plugin-owned table">>,
     foreign |-> <<>>,
     visited |-> {}]

\* plugin_table_wrapper::entries_count
AdapterCountStep ==
    \E ok \in BOOLEAN :
        /\ AdapterUsable
        /\ call' = AdapterCall("entries_count", NoEntry, 0, 0,
                               IF ok THEN OwnerGetSize(p_entries) ELSE 0,
                               IF OwnerFailed(ok) THEN <<OwnerLastError>> ELSE <<>>,
                               <<Foreign("get_table_size", NoEntry, NoEntry, 0)>>,
                               ~ok)
        /\ UNCHANGED <<nonWrapperVars, wrappers, p_entries, p_heap>>

\* plugin_table_wrapper::clear_entries
AdapterClearStep ==
    \E ok \in BOOLEAN :
        LET r == OwnerClear(p_entries, p_heap, ok) IN
        /\ AdapterUsable
        /\ p_entries' = r.entries
        /\ p_heap' = r.heap
        /\ call' = AdapterCall("clear_entries", NoEntry, 0, 0, NoEntry,
                               IF OwnerFailed(r.ok) THEN <<OwnerLastError>> ELSE <<>>,
                               <<Foreign("clear_table", NoEntry, NoEntry, 0)>>,
                               ~r.ok)
        /\ UNCHANGED <<nonWrapperVars, wrappers>>

\* plugin_table_wrapper::erase_entry: return res == SS_PLUGIN_SUCCESS
AdapterEraseEntryStep ==
    \E k \in Keys, ok \in BOOLEAN :
        LET r == OwnerEraseEntry(p_entries, p_heap, k, ok) IN
        /\ AdapterUsable
        /\ p_entries' = r.entries
        /\ p_heap' = r.heap
        /\ call' = AdapterCall("erase_entry", k, 0, IF r.ok THEN 1 ELSE 0, NoEntry,
                               <<>>,
                               <<Foreign("erase_table_entry", k, NoEntry, 0)>>,
                               ~r.ok)
        /\ UNCHANGED <<nonWrapperVars, wrappers>>

\* plugin_table_wrapper::foreach_entry
AdapterForeachStep ==
    LET r == ForeachEntry(p_entries) IN
    /\ AdapterUsable
    /\ call' = AdapterCall("foreach_entry", NoEntry, 0, Cardinality(r.visited),
                           NoEntry, r.raised, r.foreign, FALSE)
    /\ UNCHANGED <<nonWrapperVars, wrappers, p_entries, p_heap>>

\* the fields of the adapter's definitions whose accessor it holds
AccessibleFields ==
    {n \in PluginFieldNames :
        /\ DynFind(a_fields, n) # 0
        /\ (DynFind(a_fields, n) - 1) \in a_accessors}

\* what a call on a field of a plugin_table_entry did
AdapterEntryFieldCall(op, w, e, name, v, raised, foreign, failed) ==
    [op |-> op, key |-> NoEntry, entry |-> e, wrapper |-> w, field |-> name,
     value |-> v, ret |-> NoEntry, raised |-> raised, foreign |-> foreign,
     failed |-> failed, rc |-> IF raised = <<>> THEN "SUCCESS" ELSE "FAILURE"]

\* a faulty read: the entry's contents as they were when it was created
ReadEntryField_Stale(ph, e, n) == UnusedOwnerEntry.vals[n]

\* get_dynamic_field: reader.read_entry_field on the owner, then convert_types
ReadEntryField(ph, e, n) == OwnerReadField(ph, e, n)

\* plugin_table_entry::get_dynamic_field
AdapterReadFieldStep ==
    \E w \in WrapperIds, n \in AccessibleFields, ok \in BOOLEAN :
        LET e == wrappers[w].m_entry
            ft == typeinfo_to_state_type(a_fields[DynFind(a_fields, n)].info)
        IN  /\ AdapterUsable
            /\ wrappers[w].live
            /\ p_heap[e].st \in {"detached", "inserted"}
            /\ call' = AdapterEntryFieldCall(
                          "get_dynamic_field", w, e, n,
                          IF ok THEN ReadEntryField(p_heap, e, n) ELSE 0,
                          IF OwnerFailed(ok)
                          THEN <<"plugin table entry read field error: ", OwnerLastError>>
                          ELSE <<>>,
                          <<ForeignField("read_entry_field", e, n, ft, 0)>>,
                          ~ok)
            /\ UNCHANGED <<nonWrapperVars, wrappers, p_entries, p_heap>>

\* a const char* as the owner leaves it in ss_plugin_state_data::str
CString(null, chars) == [null |-> null, chars |-> chars]

\* the pointers the owner answers a read of a string field with: NULL, the
\* empty string and non-empty strings
OwnerStrings ==
    {CString(TRUE, "")} \cup {CString(FALSE, c) : c \in {"", "a", "bc"}}

\* a faulty conversion: the generic to = from, which builds a std::string
\* from whatever the pointer is
ConvertCString_Unchecked(from) == IF from.null THEN Garbage ELSE from.chars

\* convert_types(const char* const& from, std::string& to)
ConvertCString(from) ==
    IF from.null \/ from.chars = "" THEN "" ELSE from.chars

\* plugin_table_entry::get_dynamic_field on a string field: the owner's
\* read_entry_field leaves a pointer in dout.str, which convert_types turns
\* into the std::string the host gets
AdapterReadStringStep ==
    \E w \in WrapperIds, n \in AccessibleFields, ok \in BOOLEAN,
       ptr \in OwnerStrings :
        LET e == wrappers[w].m_entry
            ft == typeinfo_to_state_type(a_fields[DynFind(a_fields, n)].info)
        IN  /\ AdapterUsable
            /\ wrappers[w].live
            /\ p_heap[e].st \in {"detached", "inserted"}
            /\ ft = "ST_STRING"
            /\ call' = AdapterEntryFieldCall(
                          "get_dynamic_field", w, e, n,
                          IF ok THEN ConvertCString(ptr) ELSE "",
                          IF OwnerFailed(ok)
                          THEN <<"plugin table entry read field error: ", OwnerLastError>>
                          ELSE <<>>,
                          <<ForeignField("read_entry_field", e, n, ft, ptr)>>,
                          ~ok)
            /\ UNCHANGED <<nonWrapperVars, wrappers, p_entries, p_heap>>

\* plugin_table_entry::set_dynamic_field
AdapterWriteFieldStep ==
    \E w \in WrapperIds, n \in AccessibleFields, v \in OwnerValues, ok \in BOOLEAN :
        LET e == wrappers[w].m_entry
            ft == typeinfo_to_state_type(a_fields[DynFind(a_fields, n)].info)
            r == OwnerWriteField(p_heap, e, n, v, ok)
        IN  /\ AdapterUsable
            /\ wrappers[w].live
            /\ p_heap[e].st \in {"detached", "inserted"}
            /\ p_heap' = r.heap
            /\ call' = AdapterEntryFieldCall(
                          "set_dynamic_field", w, e, n, v,
                          IF OwnerFailed(r.ok)
                          THEN <<"plugin table entry write field error: ", OwnerLastError>>
                          ELSE <<>>,
                          <<ForeignField("write_entry_field", e, n, ft, v)>>,
                          ~r.ok)
            /\ UNCHANGED <<nonWrapperVars, wrappers, p_entries>>

\* the owner changes a field of one of its entries on its own, without the
\* host taking part
OwnerWritesStep ==
    \E e \in OwnerEntryIds, n \in PluginFieldNames, v \in OwnersOwnValues :
        /\ ~aborted
        /\ p_heap[e].st = "inserted"
        /\ OwnerFindField(p_fields, n) # 0
        /\ p_heap' = OwnerWriteField(p_heap, e, n, v, TRUE).heap
        /\ call' = PluginCall("owner_write", NoEntry, e, n, v, NoEntry, Null)
        /\ UNCHANGED <<nonWrapperVars, wrappers, p_entries>>

(* The end of a plugin: what sinsp_plugin owns goes with it                *)

\* a table whose object was deleted; the registry still names it
DestroyedTable(t) == [t EXCEPT !.impl = "destroyed"]

TableAlive(n) == m_tables[n].impl \in {"native", "plugin"}

\* the sinsp_plugin's members are destroyed: the owned_table_t of every
\* table it registered deletes the table, the accessed_table_t of every
\* table it accessed deletes its wrapper (table_input_deleter)
UnloadPluginStep ==
    \E p \in Plugins :
        /\ p \notin unloaded
        /\ unloaded' = unloaded \cup {p}
        /\ m_tables' = [n \in TableNames |->
                          IF n \in m_owned_tables[p]
                          THEN DestroyedTable(m_tables[n]) ELSE m_tables[n]]
        /\ m_owned_tables' = [m_owned_tables EXCEPT ![p] = {}]
        /\ m_accessed_tables' =
              [m_accessed_tables EXCEPT ![p] = [n \in TableNames |-> NoWrapper]]
        /\ call' = [NoCall EXCEPT !.op = "unload", !.owner = p]
        /\ UNCHANGED <<m_last_owner_err, nonRegVars>>

\* the registry entry points, called by a plugin that exists on tables
\* that exist
LiveGetTableStep ==
    \E p \in Plugins \ unloaded, n \in TableNames, k \in KeyTypeInputs :
        /\ m_tables[n].impl # "destroyed"
        /\ TableApiGetTable(p, n, k)

LiveAddTableStep ==
    \E p \in Plugins \ unloaded, n \in TableNames, k \in KeyTypeInputs :
        /\ m_tables[n].impl # "destroyed"
        /\ TableApiAddTable(p, n, k)

LiveListTablesStep ==
    \E p \in Plugins \ unloaded :
        /\ \A n \in TableNames : m_tables[n].impl # "destroyed"
        /\ TableApiListTables(p)

\* a registry entry point reaches a deleted table through the registry's
\* pointer: it may go on as if the table were there, or the process dies
DestroyedTableUseStep ==
    \E p \in Plugins \ unloaded, n \in TableNames, crash \in BOOLEAN :
        /\ ~aborted
        /\ m_tables[n].impl = "destroyed"
        /\ aborted' = crash
        /\ call' = [NoCall EXCEPT !.op = "use_destroyed", !.owner = p, !.name = n]
        /\ UNCHANGED <<collectorVars, regVars, m_last_owner_err, fieldVars, entryVars, ownerVars,
                       host_freed, adapterVars>>


----------------------------------------------------------------------------
(* Specifications                                                          *)

\* no metrics collector was constructed on the engine
NoCollector ==
    /\ m_inspector = Null
    /\ m_metrics_flags = {}
    /\ m_sinsp_stats_v2 = Null
    /\ m_metrics = <<>>
    /\ snapshots = 0

\* the plugin's table before anyone touched it
InitOwner ==
    /\ NoCollector
    /\ p_fields = <<>>
    /\ p_entries = [k \in Keys |-> NoEntry]
    /\ p_heap = [e \in OwnerEntryIds |-> UnusedOwnerEntry]
    /\ host_freed = {}
    /\ aborted = FALSE
    /\ a_fields = <<>>
    /\ a_accessors = {}
    /\ wrappers = [w \in WrapperIds |-> NoWrapperObject]

\* the engine instance before any plugin touched its tables
InitEngine ==
    /\ InitOwner
    /\ m_tables = [n \in TableNames |->
                     IF n = HostTable THEN NativeTable("PT_INT64") ELSE NoTable]
    /\ unloaded = {}
    /\ m_owned_tables = [p \in Plugins |-> {}]
    /\ m_accessed_tables = [p \in Plugins |-> [n \in TableNames |-> NoWrapper]]
    /\ m_last_owner_err = [p \in Plugins |-> ""]
    /\ dyn_fields = <<>>
    /\ m_field_accessors = [n \in FieldNames |-> NoAccessor]
    /\ entries = [k \in Keys |-> NoEntry]
    /\ heap = [e \in EntryIds |-> UnusedEntry]
    /\ written = [e \in EntryIds |-> [n \in FieldNames |-> <<>>]]

InitRegistry == InitEngine /\ call = NoCall

GetTableStep ==
    \E p \in Plugins, n \in TableNames, k \in KeyTypeInputs :
        TableApiGetTable(p, n, k)

AddTableStep ==
    \E p \in Plugins, n \in TableNames, k \in KeyTypeInputs :
        TableApiAddTable(p, n, k)

ListTablesStep == \E p \in Plugins : TableApiListTables(p)

\* the key types an adapter is instantiated for
NativeKeyTypes == {"PT_INT64", "PT_UINT64"}

ConstructAdapterStep ==
    \E p \in Plugins, k \in NativeKeyTypes, declared \in KeyTypeInputs :
        ConstructAdapter(p, k, declared)

NextRegistry ==
    GetTableStep \/ AddTableStep \/ ListTablesStep \/ ConstructAdapterStep

SpecRegistry == InitRegistry /\ [][NextRegistry]_vars

\* a plugin holds a handle to the host's table
InitHostTable ==
    /\ InitOwner
    /\ m_tables = [n \in TableNames |->
                     IF n = HostTable THEN NativeTable("PT_INT64") ELSE NoTable]
    /\ unloaded = {}
    /\ m_owned_tables = [p \in Plugins |-> {}]
    /\ m_accessed_tables =
          [p \in Plugins |-> [n \in TableNames |->
              IF p = Caller /\ n = HostTable
              THEN SinspTableWrapper(Caller, HostTable, NativeTable("PT_INT64"))
              ELSE NoWrapper]]
    /\ m_last_owner_err = [p \in Plugins |-> ""]
    /\ entries = [k \in Keys |-> NoEntry]
    /\ heap = [e \in EntryIds |-> UnusedEntry]
    /\ written = [e \in EntryIds |-> [n \in FieldNames |-> <<>>]]

InitFields ==
    /\ InitHostTable
    /\ dyn_fields = <<>>
    /\ m_field_accessors = [n \in FieldNames |-> NoAccessor]
    /\ call = FieldCall("none", Null, Null, Null, <<>>, <<>>)

NextFields ==
    GetFieldStep \/ AddFieldStep \/ ListFieldsStep \/ HostDefineFieldStep

SpecFields == InitFields /\ [][NextFields]_vars

\* the caller's handle is alive
HandleAlive == m_accessed_tables[Caller][HostTable] # NoWrapper

\* the fields of the host's table through the caller's handle, from the
\* handle's creation to its release
NextFieldsLife ==
    \/ (HandleAlive /\ GetFieldStep)
    \/ (HandleAlive /\ AddFieldStep)
    \/ (HandleAlive /\ HostDefineFieldStep)
    \/ TeardownStep

SpecFieldsLife == InitFields /\ [][NextFieldsLife]_vars

\* the dynamic fields and the accessors the caller obtained before it
\* works on entries: add_table_field("y", STRING), add_table_field("x", INT64)
\* and get_table_field("comm", STRING)
EntryDynFields ==
    <<[name |-> "y", info |-> "PT_CHARBUF"], [name |-> "x", info |-> "PT_INT64"]>>

EntryAccessors ==
    [n \in FieldNames |->
        CASE n = "comm" -> [dynamic |-> FALSE, data_type |-> "ST_STRING", index |-> -1]
          [] n = "y" -> [dynamic |-> TRUE, data_type |-> "ST_STRING", index |-> 0]
          [] n = "x" -> [dynamic |-> TRUE, data_type |-> "ST_INT64", index |-> 1]]

InitEntries ==
    /\ InitHostTable
    /\ dyn_fields = EntryDynFields
    /\ m_field_accessors = EntryAccessors
    /\ call = EntryCall("none", NoEntry, NoEntry, Null, NoData, NoEntry, Null, <<>>)

NextEntries ==
    \/ CreateEntryStep
    \/ DestroyEntryStep
    \/ AddEntryStep
    \/ AddEntryAgainStep
    \/ GetEntryStep
    \/ EraseEntryStep
    \/ ClearStep
    \/ GetSizeStep

SpecEntries == InitEntries /\ [][NextEntries]_vars

\* entries of the host's table, which may refuse an entry
NextEntriesRefused == NextEntries \/ AddEntryFailsStep

SpecEntriesRefused == InitEntries /\ [][NextEntriesRefused]_vars

\* the key types of the host's tables
HostKeyTypes == {"PT_INT64", "PT_UINT64", "PT_CHARBUF"}

\* a host table of one of the key types, and the caller's handle to it
InitKeyed ==
    /\ InitOwner
    /\ \E kt \in HostKeyTypes :
          /\ m_tables = [n \in TableNames |->
                           IF n = HostTable THEN NativeTable(kt) ELSE NoTable]
          /\ m_accessed_tables =
                [p \in Plugins |-> [n \in TableNames |->
                    IF p = Caller /\ n = HostTable
                    THEN SinspTableWrapper(Caller, HostTable, NativeTable(kt))
                    ELSE NoWrapper]]
    /\ unloaded = {}
    /\ m_owned_tables = [p \in Plugins |-> {}]
    /\ m_last_owner_err = [p \in Plugins |-> ""]
    /\ entries = [k \in Keys |-> NoEntry]
    /\ heap = [e \in EntryIds |-> UnusedEntry]
    /\ written = [e \in EntryIds |-> [n \in FieldNames |-> <<>>]]
    /\ dyn_fields = EntryDynFields
    /\ m_field_accessors = EntryAccessors
    /\ call = EntryCall("none", NoEntry, NoEntry, Null, NoData, NoEntry, Null, <<>>)

\* keyed operations on host tables of every key type
NextKeyed ==
    \/ CreateEntryStep
    \/ AddEntryStep
    \/ GetEntryStep
    \/ EraseEntryStep

SpecKeyed == InitKeyed /\ [][NextKeyed]_vars

\* field values written to entries and read back from them
NextEntryFields ==
    \/ CreateEntryStep
    \/ AddEntryStep
    \/ GetEntryStep
    \/ WriteEntryFieldStep
    \/ ReadEntryFieldStep

SpecEntryFields == InitEntries /\ [][NextEntryFields]_vars

\* plugin A registered table T, plugin B obtained a handle to it
InitPlugin ==
    /\ InitOwner
    /\ m_tables = [n \in TableNames |->
                     IF n = HostTable THEN NativeTable("PT_INT64")
                     ELSE PluginTable("PT_INT64", OwnerPlugin)]
    /\ unloaded = {}
    /\ m_owned_tables = [p \in Plugins |->
                           IF p = OwnerPlugin THEN {PluginTableName} ELSE {}]
    /\ m_accessed_tables =
          [p \in Plugins |-> [n \in TableNames |->
              IF p = Caller /\ n = PluginTableName
              THEN SinspTableWrapper(Caller, n, PluginTable("PT_INT64", OwnerPlugin))
              ELSE NoWrapper]]
    /\ m_last_owner_err = [p \in Plugins |-> ""]
    /\ dyn_fields = <<>>
    /\ m_field_accessors = [n \in FieldNames |-> NoAccessor]
    /\ entries = [k \in Keys |-> NoEntry]
    /\ heap = [e \in EntryIds |-> UnusedEntry]
    /\ written = [e \in EntryIds |-> [n \in FieldNames |-> <<>>]]
    /\ call = PluginCall("none", NoEntry, NoEntry, Null, 0, Null, Null)

NextPlugin ==
    \/ FwdCreateEntryStep
    \/ FwdDestroyEntryStep
    \/ FwdAddEntryStep
    \/ FwdGetEntryStep
    \/ FwdEraseEntryStep
    \/ FwdClearStep
    \/ FwdAddFieldStep
    \/ FwdWriteFieldStep
    \/ AdapterFieldsStep
    \/ AdapterAddFieldStep

SpecPlugin == InitPlugin /\ [][NextPlugin]_vars

\* plugin B works on plugin A's table through its handle alone
NextForward ==
    \/ FwdCreateEntryStep
    \/ FwdDestroyEntryStep
    \/ FwdAddEntryStep
    \/ FwdGetEntryStep
    \/ FwdEraseEntryStep
    \/ FwdClearStep
    \/ FwdAddFieldStep
    \/ FwdWriteFieldStep
    \/ FwdReadFieldStep
    \/ FwdGetSizeStep
    \/ FwdListFieldsStep

SpecForward == InitPlugin /\ [][NextForward]_vars

\* an engine with the host's table alone, whose fields plugin B works on
HostSide == m_tables[PluginTableName] = NoTable

\* field accessors of either adapter: plugin B on the host's table in an
\* engine without plugin tables, or the host on plugin A's table
InitAccessors == InitFields \/ InitPlugin

NextAccessors ==
    \/ (HostSide /\ GetFieldStep)
    \/ (HostSide /\ AddFieldStep)
    \/ (HostSide /\ HostDefineFieldStep)
    \/ AdapterWideFieldsStep
    \/ AdapterWideAddFieldStep
    \/ (~HostSide /\ OwnerDefinesFieldStep)

SpecAccessors == InitAccessors /\ [][NextAccessors]_vars


\* entries inserted and erased on either side: plugin B on the host's table
\* in an engine without plugin tables, or the host on plugin A's table
InitErase == InitEntries \/ InitPlugin

NextErase ==
    \/ (HostSide /\ CreateEntryStep)
    \/ (HostSide /\ AddEntryStep)
    \/ (HostSide /\ EraseEntryStep)
    \/ (HostSide /\ GetSizeStep)
    \/ AdapterNewEntryStep
    \/ AdapterAddEntryStep
    \/ AdapterEraseEntryStep
    \/ AdapterCountStep

SpecErase == InitErase /\ [][NextErase]_vars

\* entries inserted, cleared, counted and looked up on either side
NextClear ==
    \/ (HostSide /\ CreateEntryStep)
    \/ (HostSide /\ AddEntryStep)
    \/ (HostSide /\ ClearStep)
    \/ (HostSide /\ GetSizeStep)
    \/ (HostSide /\ GetEntryStep)
    \/ AdapterNewEntryStep
    \/ AdapterAddEntryStep
    \/ AdapterClearStep
    \/ AdapterCountStep
    \/ AdapterGetEntryStep
    \/ AdapterDropStep

SpecClear == InitErase /\ [][NextClear]_vars

\* the host works on the plugin's table through its adapter
NextAdapter ==
    \/ AdapterNewEntryStep
    \/ AdapterGetEntryStep
    \/ AdapterAddEntryStep
    \/ AdapterDropStep
    \/ AdapterMoveStep
    \/ AdapterCopyStep
    \/ AdapterCountStep
    \/ AdapterClearStep
    \/ AdapterEraseEntryStep
    \/ AdapterForeachStep

SpecAdapter == InitPlugin /\ [][NextAdapter]_vars

\* the host works on the fields of the plugin's table and of its entries
NextAdapterFields ==
    \/ AdapterNewEntryStep
    \/ AdapterAddEntryStep
    \/ AdapterDropStep
    \/ AdapterCountStep
    \/ AdapterClearStep
    \/ AdapterFieldsStep
    \/ AdapterAddFieldStep
    \/ AdapterReadFieldStep
    \/ AdapterWriteFieldStep

SpecAdapterFields == InitPlugin /\ [][NextAdapterFields]_vars

\* the host reads string fields of the plugin's entries
NextStrings ==
    \/ AdapterNewEntryStep
    \/ AdapterAddEntryStep
    \/ AdapterDropStep
    \/ AdapterFieldsStep
    \/ AdapterAddFieldStep
    \/ AdapterReadStringStep

SpecStrings == InitPlugin /\ [][NextStrings]_vars

\* the owner defined its field, and the host listed the fields of the
\* plugin's table through the adapter
InitPassThrough ==
    /\ NoCollector
    /\ p_fields = <<[name |-> "u", field_type |-> "ST_UINT64"]>>
    /\ p_entries = [k \in Keys |-> NoEntry]
    /\ p_heap = [e \in OwnerEntryIds |-> UnusedOwnerEntry]
    /\ host_freed = {}
    /\ aborted = FALSE
    /\ a_fields = <<[name |-> "u", info |-> "PT_UINT64"]>>
    /\ a_accessors = {0}
    /\ wrappers = [w \in WrapperIds |-> NoWrapperObject]
    /\ m_tables = [n \in TableNames |->
                     IF n = HostTable THEN NativeTable("PT_INT64")
                     ELSE PluginTable("PT_INT64", OwnerPlugin)]
    /\ unloaded = {}
    /\ m_owned_tables = [p \in Plugins |->
                           IF p = OwnerPlugin THEN {PluginTableName} ELSE {}]
    /\ m_accessed_tables = [p \in Plugins |-> [n \in TableNames |-> NoWrapper]]
    /\ m_last_owner_err = [p \in Plugins |-> ""]
    /\ dyn_fields = <<>>
    /\ m_field_accessors = [n \in FieldNames |-> NoAccessor]
    /\ entries = [k \in Keys |-> NoEntry]
    /\ heap = [e \in EntryIds |-> UnusedEntry]
    /\ written = [e \in EntryIds |-> [n \in FieldNames |-> <<>>]]
    /\ call = PluginCall("none", NoEntry, NoEntry, Null, 0, Null, Null)

\* the host works on the plugin's entries through the adapter while the
\* owner changes them on its own
NextPassThrough ==
    \/ AdapterNewEntryStep
    \/ AdapterGetEntryStep
    \/ AdapterAddEntryStep
    \/ AdapterDropStep
    \/ AdapterCountStep
    \/ AdapterClearStep
    \/ AdapterEraseEntryStep
    \/ AdapterReadFieldStep
    \/ AdapterWriteFieldStep
    \/ OwnerWritesStep

SpecPassThrough == InitPassThrough /\ [][NextPassThrough]_vars

\* plugins register and access tables, and are destroyed
NextLifetime ==
    \/ (~aborted /\ LiveGetTableStep)
    \/ (~aborted /\ LiveAddTableStep)
    \/ (~aborted /\ LiveListTablesStep)
    \/ (~aborted /\ UnloadPluginStep)
    \/ DestroyedTableUseStep

SpecLifetime == InitRegistry /\ [][NextLifetime]_vars

----------------------------------------------------------------------------
(* Claims about the registry entry points (SpecRegistry)                   *)

\* the key type a registered table declares at the boundary
DeclaredKeyType(name) ==
    IF m_tables[name] = NoTable THEN Null
    ELSE typeinfo_to_state_type(m_tables[name].key_info)

\* C2: a plugin that requests a table owned by another plugin gets the
\* handle the owner registered, and no wrapper object is created around it.
C2_OriginalHandleReturned ==
    (/\ call.op = "get_table"
     /\ call.ret # NullHandle
     /\ m_tables[call.name].impl = "plugin")
    => /\ call.ret = PluginInput(m_tables[call.name].owner, call.name)
       /\ m_accessed_tables[call.owner][call.name] = NoWrapper

\* C5: get_table returns null whenever the name is not registered or the
\* key type differs from the table's key type, in every reachable state.
C5_GetTableRejectsMismatch ==
    (/\ call.op = "get_table"
     /\ \/ m_tables[call.name] = NoTable
        \/ call.key_type # DeclaredKeyType(call.name))
    => call.ret = NullHandle

----------------------------------------------------------------------------
(* Claims about the fields of a host-owned table (SpecFields)              *)

\* the types a name is declared with, as the boundary names them
DeclaredFieldTypes(dyn, name) ==
    (IF IsStaticField(name)
     THEN {typeinfo_to_state_type(StaticFields[name].info)} ELSE {})
    \cup {typeinfo_to_state_type(dyn[i].info) :
            i \in {j \in 1..Len(dyn) : dyn[j].name = name}}

\* the names defined both as a static and as a dynamic field
ShadowedNames(dyn) == {n \in FieldNames : IsStaticField(n) /\ DynFind(dyn, n) # 0}

\* C4: get_table_field with a type other than the declared type of an
\* existing field returns null, also when an accessor is already cached.
C4_TypeMismatchRejected ==
    (/\ call.op = "get_table_field"
     /\ call.data_type \in StateTypes
     /\ DeclaredFieldTypes(dyn_fields, call.name) # {}
     /\ call.data_type \notin DeclaredFieldTypes(dyn_fields, call.name))
    => call.ret = Null

\* C6: a fault raised while a boundary call on a host-owned table is
\* served ends the call with its failure sentinel and the fault's message
\* in the caller's last-error slot.
C6_FaultYieldsSentinel ==
    (/\ call.op \in {"get_table_field", "add_table_field"}
     /\ call.raised # <<>>)
    => /\ call.ret = Null
       /\ m_last_owner_err[Caller] = call.raised[Len(call.raised)]

\* C7: get_table_field on a name defined both as static and as dynamic
\* returns null, reports the schema error and creates no accessor.
C7_ShadowedNameRejected ==
    (/\ call.op = "get_table_field"
     /\ call.name \in ShadowedNames(dyn_fields))
    => /\ call.ret = Null
       /\ \E i \in 1..Len(call.raised) :
             call.raised[i] = "field is defined as both static and dynamic"
       /\ m_field_accessors[call.name] = NoAccessor

\* C8: add_table_field with the name of a static field returns null with
\* an error message and adds no dynamic field; no add_table_field call
\* makes a name both static and dynamic.
C8_AddFieldNeverShadowsStatic ==
    [][call'.op = "add_table_field" =>
         /\ ShadowedNames(dyn_fields') = ShadowedNames(dyn_fields)
         /\ IsStaticField(call'.name) =>
               /\ call'.ret = Null
               /\ dyn_fields' = dyn_fields
               /\ m_last_owner_err'[Caller] =
                     "can't add dynamic field already defined as static"]_vars

\* C8 witness: add_table_field was refused for the name of a static field
C8_Witness ==
    /\ call.op = "add_table_field"
    /\ IsStaticField(call.name)
    /\ call.data_type = "ST_STRING"
    /\ call.ret = Null
    /\ Len(dyn_fields) > 0

----------------------------------------------------------------------------
(* Claims about field values of a host-owned table (SpecEntryFields)       *)

\* C10: for static and dynamic fields of every type, the value written
\* with write_entry_field into an entry is the value read_entry_field
\* returns for that entry once add_table_entry has inserted it.
C10_RoundTrip ==
    (/\ call.op = "read_entry_field"
     /\ call.rc = "SUCCESS"
     /\ heap[call.entry].st = "inserted"
     /\ written[call.entry][call.field] # <<>>)
    => call.data.v = written[call.entry][call.field]

----------------------------------------------------------------------------
(* Claims about a plugin-owned table (SpecPlugin)                          *)

\* the host holds entries of its own
HostCopyOfEntries ==
    \/ \E k \in Keys : entries[k] # NoEntry
    \/ \E e \in EntryIds : heap[e] # UnusedEntry

\* what the owner's own function table answers after a mutation the other
\* plugin made through its handle
MutationVisibleToOwner ==
    /\ (call.op = "add_table_entry" /\ call.rc = "SUCCESS")
          => /\ OwnerGetEntry(p_entries, call.key) = call.entry
             /\ p_heap[call.entry].st = "inserted"
    /\ (call.op = "write_entry_field" /\ call.rc = "SUCCESS")
          => OwnerReadField(p_heap, call.entry, call.field) = call.value
    /\ (call.op = "erase_table_entry" /\ call.rc = "SUCCESS")
          => OwnerGetEntry(p_entries, call.key) = NoEntry
    /\ (call.op = "clear_table" /\ call.rc = "SUCCESS")
          => \A k \in Keys : OwnerGetEntry(p_entries, k) = NoEntry
    /\ (call.op = "add_table_field" /\ call.rc = "SUCCESS")
          => \E i \in 1..Len(OwnerListFields(p_fields)) :
                OwnerListFields(p_fields)[i] =
                    [name |-> call.field, field_type |-> call.value]

\* the definitions the adapter cached are definitions of the owner's list
CachedFromOwner ==
    /\ Len(a_fields) <= Len(p_fields)
    /\ \A i \in 1..Len(a_fields) :
          /\ a_fields[i].name = p_fields[i].name
          /\ a_fields[i].info = PluginStateTypeSwitch(p_fields[i].field_type)

\* C1: every mutation plugin B makes through its handle to A's table is
\* applied to A's backing store and is at once visible through A's function
\* table; the host keeps no store of its own for the table: no entries, no
\* field definitions but those its adapter read from A's list.
C1_MutationsReachOwner ==
    /\ MutationVisibleToOwner
    /\ ~HostCopyOfEntries
    /\ dyn_fields = <<>>
    /\ CachedFromOwner

\* a write through B's handle to an entry A's table holds, while the
\* host's adapter caches field definitions
C1_Witness ==
    /\ call.op = "write_entry_field"
    /\ call.rc = "SUCCESS"
    /\ p_heap[call.entry].st = "inserted"
    /\ a_fields # <<>>

\* C3: destroy_table_entry on a handle to a plugin-owned table destroys the
\* detached entry through the owner's destroy function only; the host never
\* deallocates the entry itself.
C3_DestroyedOnlyByOwner ==
    call.op = "destroy_table_entry"
    => /\ p_heap[call.entry].st = "destroyed"
       /\ call.entry \notin host_freed

\* C9: a table operation that reports failure leaves the table's fields and
\* entries as they were before the call.
C9_FailureLeavesTableUnchanged ==
    [][(/\ call'.op \in {"add_table_field", "add_field", "add_table_entry",
                         "erase_table_entry", "clear_table"}
        /\ call'.rc = "FAILURE")
       => (p_fields' = p_fields /\ p_entries' = p_entries)]_vars

----------------------------------------------------------------------------
(* Claims about the entries of a host-owned table (SpecEntries)            *)

\* C11: add_table_entry with an entry that is not detached (inserted
\* already, or destroyed) returns null and leaves the table's entries and
\* their ownership as they were.
C11_NonDetachedRejected ==
    [][(/\ call'.op = "add_table_entry"
        /\ heap[call'.entry].st # "detached")
       => (/\ call'.ret = NoEntry
           /\ entries' = entries
           /\ heap' = heap)]_vars

----------------------------------------------------------------------------
(* Claims about the host's adapter of a plugin-owned table (SpecAdapter)   *)

\* the owner's destroy function is among the calls the adapter made
CalledDestroy(c) ==
    \E i \in 1..Len(c.foreign) : c.foreign[i].f = "destroy_table_entry"

\* no wrapper owns an entry the owner's table holds
OwnedAreDetached(ws, ph) ==
    \A w \in WrapperIds :
        (ws[w].live /\ ws[w].m_destroy_entry) => ph[ws[w].m_entry].st = "detached"

\* C12: a wrapper owns from new_entry until add_entry succeeds and never
\* after; wrappers from get_entry and add_entry do not own; the owner's
\* destroy function is called exactly when a wrapper that still owns is
\* dropped, so the adapter never destroys an inserted entry.
C12_OwnerFlag ==
    [][/\ (call'.op = "new_entry" /\ call'.raised = <<>>)
            => wrappers'[call'.wrapper] = PluginTableEntry(call'.ret, TRUE)
       /\ (call'.op = "add_entry" /\ call'.raised = <<>>)
            => /\ wrappers'[call'.wrapper] = PluginTableEntry(call'.ret, FALSE)
               /\ p_heap'[call'.ret].st = "inserted"
       /\ (call'.op = "get_entry" /\ call'.ret # NoEntry)
            => wrappers'[call'.wrapper] = PluginTableEntry(call'.ret, FALSE)
       /\ CalledDestroy(call')
            <=> \E w \in WrapperIds :
                   /\ wrappers[w].live /\ wrappers[w].m_destroy_entry
                   /\ ~wrappers'[w].live
       /\ \A i \in 1..Len(call'.foreign) :
             call'.foreign[i].f = "destroy_table_entry"
                => p_heap[call'.foreign[i].entry].st = "detached"
       /\ OwnedAreDetached(wrappers', p_heap')]_vars

\* a wrapper that owned a detached entry was dropped, and one that no
\* longer owns refers to an inserted entry
C12_Witness ==
    /\ call.op = "drop"
    /\ call.foreign # <<>>
    /\ \E w \in WrapperIds :
          /\ wrappers[w].live /\ ~wrappers[w].m_destroy_entry
          /\ p_heap[wrappers[w].m_entry].st = "inserted"

\* C13: a copy of a wrapper that still owns its entry fails, and at most
\* one wrapper owns a given entry of the owner.
C13_SingleOwner ==
    /\ (call.op = "copy" /\ wrappers[call.wrapper].m_destroy_entry)
          => /\ call.raised # <<>>
             /\ wrappers[call.value] # wrappers[call.wrapper]
    /\ \A w1 \in WrapperIds, w2 \in WrapperIds :
          (/\ w1 # w2
           /\ wrappers[w1].live /\ wrappers[w1].m_destroy_entry
           /\ wrappers[w2].live /\ wrappers[w2].m_destroy_entry)
          => wrappers[w1].m_entry # wrappers[w2].m_entry

\* the copy of an owning wrapper was refused while another wrapper owns
\* another entry
C13_Witness ==
    /\ call.op = "copy"
    /\ call.raised # <<>>
    /\ \A w \in WrapperIds : wrappers[w].live /\ wrappers[w].m_destroy_entry

\* C16: building the adapter of a plugin-owned table for native key type K
\* from a description that declares another key type fails; add_table with a
\* description whose key type is none of the supported ones returns failure
\* and leaves the registry and the plugin's owned tables as they were.
C16_KeyTypeChecked ==
    [][/\ (/\ call'.op = "plugin_table_wrapper"
           /\ call'.key_type # typeinfo_to_state_type(call'.native))
          => (call'.raised # <<>> /\ ~call'.created)
       /\ (call'.op = "add_table" /\ call'.key_type \notin StateTypes)
          => (/\ call'.rc = "FAILURE"
              /\ m_tables' = m_tables
              /\ m_owned_tables' = m_owned_tables)]_vars

\* add_table was refused for its key type, and an adapter was refused for
\* a key type that is supported but is not its own
C16_Witness ==
    /\ call.op = "plugin_table_wrapper"
    /\ call.key_type \in StateTypes
    /\ call.key_type # typeinfo_to_state_type(call.native)
    /\ call.raised # <<>>
    /\ \E p \in Plugins : m_last_owner_err[p] = "can't convert plugin state type to typeinfo"

\* C18: when get_table, or a call on a host-owned table such as
\* get_table_entry, returns its failure sentinel, the caller's last-error
\* message was set by that same call and describes that failure: it is no
\* leftover of an earlier call.
C18_FailureSetsLastError ==
    [][/\ (call'.op = "get_table" /\ call'.ret = NullHandle)
          => (/\ call'.raised # <<>>
              /\ m_last_owner_err'[call'.owner] = call'.raised[Len(call'.raised)])
       /\ (call'.op = "get_table_entry" /\ call'.ret = NoEntry)
          => (/\ call'.raised # <<>>
              /\ m_last_owner_err'[Caller] = call'.raised[Len(call'.raised)])]_vars

----------------------------------------------------------------------------
(* Claims about the lifetime of registered tables (SpecLifetime)           *)

\* C14: a table registered through add_table is owned by the registry alone:
\* the plugin that registered it holds no ownership of it, and no registry
\* entry and no handle of another plugin refers to a destroyed table.
C14_RegistryOwnsTables ==
    /\ \A p \in Plugins : m_owned_tables[p] = {}
    /\ \A n \in TableNames : m_tables[n].impl # "destroyed"
    /\ \A p \in Plugins, n \in TableNames :
          m_accessed_tables[p][n] # NoWrapper => TableAlive(n)

\* C15: on the adapter of a plugin-owned table, get_entry of an absent key,
\* erase_entry of an absent key and foreach_entry give the caller a
\* null/false/failure value and raise no fault; foreach_entry visits no entry
\* and calls none of the owner's functions.
C15_NotFoundIsRecoverable ==
    /\ (call.op = "get_entry" /\ call.ret = NoEntry)
          => (call.raised = <<>> /\ call.wrapper = 0)
    /\ (call.op = "erase_entry" /\ call.failed)
          => (call.raised = <<>> /\ call.value = 0)
    /\ call.op = "foreach_entry"
          => (call.raised = <<>> /\ call.foreign = <<>> /\ call.value = 0)

----------------------------------------------------------------------------
(* Claims about the adapter as a pass-through (SpecPassThrough)            *)

\* the calls of the owner's function f among the calls c made
CallsOf(c, f) == {i \in 1..Len(c.foreign) : c.foreign[i].f = f}

\* the adapter called the owner's function f once, with these arguments
CalledOnce(c, f, args) ==
    /\ Cardinality(CallsOf(c, f)) = 1
    /\ \A i \in CallsOf(c, f) : c.foreign[i] = args

\* the type the adapter knows the field by
AdapterFieldType(n) == typeinfo_to_state_type(a_fields[DynFind(a_fields, n)].info)

\* C17: on the adapter of a plugin-owned table, entries_count, clear_entries,
\* new_entry, get_entry, add_entry, erase_entry and every read and write of a
\* field call the owner's corresponding function exactly once with the same
\* key or value, and what they answer is the owner's state at the time of
\* the call: the adapter keeps no contents of entries of its own.
C17_PassThrough ==
    [][/\ call'.op = "entries_count"
            => /\ CalledOnce(call', "get_table_size",
                             Foreign("get_table_size", NoEntry, NoEntry, 0))
               /\ call'.raised = <<>> => call'.ret = OwnerGetSize(p_entries)
       /\ call'.op = "clear_entries"
            => /\ CalledOnce(call', "clear_table",
                             Foreign("clear_table", NoEntry, NoEntry, 0))
               /\ call'.raised = <<>> => \A k \in Keys : p_entries'[k] = NoEntry
       /\ call'.op = "new_entry"
            => /\ CalledOnce(call', "create_table_entry",
                             Foreign("create_table_entry", NoEntry, NoEntry, 0))
               /\ call'.raised = <<>>
                     => (p_heap[call'.ret].st = "unused"
                         /\ p_heap'[call'.ret].st = "detached")
       /\ call'.op = "get_entry"
            => /\ CalledOnce(call', "get_table_entry",
                             Foreign("get_table_entry", call'.key, NoEntry, 0))
               /\ call'.ret = OwnerGetEntry(p_entries, call'.key)
       /\ call'.op = "add_entry"
            => /\ CalledOnce(call', "add_table_entry",
                             Foreign("add_table_entry", call'.key,
                                     wrappers[call'.wrapper].m_entry, 0))
               /\ call'.raised = <<>>
                     => OwnerGetEntry(p_entries', call'.key)
                           = wrappers[call'.wrapper].m_entry
       /\ call'.op = "erase_entry"
            => /\ CalledOnce(call', "erase_table_entry",
                             Foreign("erase_table_entry", call'.key, NoEntry, 0))
               /\ call'.value = 1
                     => (OwnerGetEntry(p_entries, call'.key) # NoEntry
                         /\ OwnerGetEntry(p_entries', call'.key) = NoEntry)
       /\ call'.op = "get_dynamic_field"
            => /\ CalledOnce(call', "read_entry_field",
                             ForeignField("read_entry_field",
                                          wrappers[call'.wrapper].m_entry,
                                          call'.field,
                                          AdapterFieldType(call'.field), 0))
               /\ call'.raised = <<>>
                     => call'.value = OwnerReadField(p_heap, call'.entry, call'.field)
       /\ call'.op = "set_dynamic_field"
            => /\ CalledOnce(call', "write_entry_field",
                             ForeignField("write_entry_field",
                                          wrappers[call'.wrapper].m_entry,
                                          call'.field,
                                          AdapterFieldType(call'.field),
                                          call'.value))
               /\ call'.raised = <<>>
                     => OwnerReadField(p_heap', call'.entry, call'.field)
                           = call'.value]_vars

\* the host read through the adapter a value that the owner wrote on its own
C17_Witness ==
    /\ call.op = "get_dynamic_field"
    /\ call.raised = <<>>
    /\ call.value \in OwnersOwnValues
    /\ Cardinality({k \in Keys : p_entries[k] # NoEntry}) = Cardinality(Keys)

----------------------------------------------------------------------------
(* Claims about failures of the owner seen through the adapter             *)
(* (SpecAdapterFields)                                                     *)

\* the fault carries the owner's last error
CarriesOwnerError(raised) ==
    \E i \in 1..Len(raised) : raised[i] = OwnerLastError

\* C19: on the adapter of a plugin-owned table, when the owner's function
\* signals failure to entries_count, clear_entries, new_entry, add_entry, a
\* read or a write of a field, or to the listing, getting or adding of a
\* field, the adapter raises a host error that carries the owner's last
\* error; it never answers as if the call had succeeded.
C19_OwnerFailureRaised ==
    (/\ call.op \in {"entries_count", "clear_entries", "new_entry", "add_entry",
                     "get_dynamic_field", "set_dynamic_field", "fields",
                     "add_field"}
     /\ call.failed)
    => (/\ call.raised # <<>>
        /\ CarriesOwnerError(call.raised)
        /\ call.rc = "FAILURE")

\* the owner failed to write a field, and the adapter raised its error
C19_Witness ==
    /\ call.op = "set_dynamic_field"
    /\ call.failed
    /\ call.raised = <<"plugin table entry write field error: ", OwnerLastError>>
    /\ p_heap[call.entry].st = "inserted"

----------------------------------------------------------------------------
(* Claims about failures of forwarded calls (SpecForward)                  *)

\* the forwarded call came back with a result that is not a success
ForwardedUnsuccessful(c) ==
    \/ c.op \in {"create_table_entry", "get_table_entry", "add_table_entry"}
          /\ c.ret = NoEntry
    \/ c.op = "add_table_field" /\ c.ret = Null
    \/ c.op \in {"get_table_size", "list_table_fields"} /\ c.value = -1
    \/ c.op \in {"clear_table", "erase_table_entry", "write_entry_field",
                 "read_entry_field"}
          /\ c.rc # "SUCCESS"

\* C20: when a call of plugin B on a handle to plugin A's table is forwarded
\* to A and does not succeed (null, (u64)-1 or any return code other than
\* success), B gets the failure result as it is and B's last-error message
\* is set to A's last-error message for that call.
C20_ForwardedFailureCopiesError ==
    [][ForwardedUnsuccessful(call')
          => m_last_owner_err'[Caller] = OwnerLastError]_vars

----------------------------------------------------------------------------
(* Claims about field accessors of both adapters (SpecAccessors)           *)

\* C21: for both adapters, an accessor obtained for a field, then any number
\* of other fields added, then the accessor obtained again: both designate
\* the same field at the same index; an index once handed out is never
\* given to another field.
C21_IndexesStable ==
    [][/\ \A n \in FieldNames :
             m_field_accessors[n] # NoAccessor
             => /\ m_field_accessors'[n] = m_field_accessors[n]
                /\ m_field_accessors[n].dynamic
                      => (/\ DynFind(dyn_fields, n) = m_field_accessors[n].index + 1
                          /\ DynFind(dyn_fields', n) = m_field_accessors[n].index + 1)
       /\ \A i \in 1..Len(a_fields) :
             /\ Len(a_fields') >= i
             /\ a_fields'[i] = a_fields[i]
             /\ OwnerFindField(p_fields', a_fields[i].name) = i
             /\ (i - 1) \in a_accessors => (i - 1) \in a_accessors']_vars

\* the host holds the accessors of two fields of the plugin's table, and
\* listed the fields once more
C21_Witness ==
    /\ call.op = "fields"
    /\ call.raised = <<>>
    /\ Len(a_fields) = Cardinality(WideFieldNames)
    /\ a_accessors = WideAccessorIndexes
    /\ call.foreign = <<ForeignField("list_table_fields", NoEntry, Null, Null, 0)>>

\* C22: for a plugin-owned table, the cached field descriptors are taken
\* anew from the owner's list only when the number of fields the owner
\* reports differs from the number cached; when the two are equal, fields()
\* returns the cached descriptors unchanged.
C22_RefreshOnlyOnCountChange ==
    [][call'.op = "fields"
          => /\ Len(OwnerListFields(p_fields)) = Len(a_fields)
                   => (a_fields' = a_fields /\ call'.value = 0)
             /\ (call'.value # 0 \/ a_fields' # a_fields)
                   => Len(OwnerListFields(p_fields)) # Len(a_fields)]_vars

\* the owner reported as many fields as the host had cached, and the host
\* kept its descriptors
C22_Witness ==
    /\ call.op = "fields"
    /\ call.raised = <<>>
    /\ call.value = 0
    /\ Len(a_fields) = Cardinality(WideFieldNames)
    /\ Len(p_fields) = Len(a_fields)

\* the indexes of the fields the adapter asked the owner's get_table_field for
AskedIndexes(c, dyn) ==
    {DynFind(dyn, c.foreign[i].field) - 1 :
        i \in {j \in 1..Len(c.foreign) : c.foreign[j].f = "get_table_field"}}

\* C23: for a plugin-owned table, the owner's get_table_field is called for
\* a field index only while no handle is cached for that index; a cached
\* handle is never acquired again or replaced, whatever fields() and
\* add_field calls follow, those after a failed refresh included.
C23_AccessorsAcquiredOnce ==
    [][call'.op \in {"fields", "add_field"}
          => /\ AskedIndexes(call', a_fields') \cap a_accessors = {}
             /\ a_accessors \subseteq a_accessors'
             /\ a_accessors' \subseteq a_accessors \cup AskedIndexes(call', a_fields')]_vars

\* the owner refused a handle while the host held the handle of another
\* field, and only the missing one had been asked for
C23_Witness ==
    /\ call.op = "fields"
    /\ call.failed
    /\ a_accessors = {0}
    /\ AskedIndexes(call, a_fields) = WideAccessorIndexes \ {0}

----------------------------------------------------------------------------
(* Claims about the accessors of a host-owned table (SpecFieldsLife)       *)

\* C24: for the adapter of a host-owned table, at most one accessor object
\* is ever allocated for a field name, it is not freed or replaced while the
\* adapter lives, and when the adapter goes every cached accessor is freed
\* exactly once, as the static or dynamic accessor of the value type that
\* was recorded when it was created.
C24_AccessorsFreedOnce ==
    [][/\ call'.op \in {"get_table_field", "add_table_field"}
          => /\ Len(call'.infos) <= 1
             /\ call'.infos # <<>>
                   => (/\ m_field_accessors[call'.name] = NoAccessor
                       /\ call'.infos[1] =
                             NewAccessor(m_field_accessors'[call'.name].dynamic,
                                         m_field_accessors'[call'.name].data_type))
             /\ \A n \in FieldNames :
                   m_field_accessors[n] # NoAccessor
                   => m_field_accessors'[n] = m_field_accessors[n]
       /\ call'.op = "teardown"
          => /\ DOMAIN call'.infos
                   = {n \in FieldNames : m_field_accessors[n] # NoAccessor}
             /\ \A n \in DOMAIN call'.infos :
                   call'.infos[n] =
                      NewAccessor(m_field_accessors[n].dynamic,
                                  m_field_accessors[n].data_type)
             /\ \A n \in FieldNames : m_field_accessors'[n] = NoAccessor]_vars

\* the handle was released while it held a static and a dynamic accessor
C24_Witness ==
    /\ call.op = "teardown"
    /\ \E n \in DOMAIN call.infos : call.infos[n].dynamic
    /\ \E n \in DOMAIN call.infos : ~call.infos[n].dynamic

----------------------------------------------------------------------------
(* Claims about erasing and clearing entries (SpecErase, SpecClear)        *)

\* C25: erasing a key the table does not hold reports failure and leaves
\* the entries and their count as they were, on the host's table
\* (erase_table_entry) as through the adapter of a plugin's table
\* (erase_entry)
C25_EraseAbsentIsNoOp ==
    [][/\ (call'.op = "erase_table_entry" /\ entries[call'.key] = NoEntry)
          => /\ call'.rc = "FAILURE"
             /\ entries' = entries
             /\ heap' = heap
             /\ NativeEntriesCount(entries') = NativeEntriesCount(entries)
       /\ (call'.op = "erase_entry" /\ p_entries[call'.key] = NoEntry)
          => /\ call'.value = 0
             /\ p_entries' = p_entries
             /\ p_heap' = p_heap
             /\ OwnerGetSize(p_entries') = OwnerGetSize(p_entries)]_vars

\* erase_table_entry failed for an absent key while the table holds an
\* entry under another key
C25_Witness ==
    /\ call.op = "erase_table_entry"
    /\ call.rc = "FAILURE"
    /\ entries[call.key] = NoEntry
    /\ NativeEntriesCount(entries) = 1

\* a clear the caller was told succeeded
ClearedOk(c) ==
    \/ (c.op = "clear_table" /\ c.rc = "SUCCESS")
    \/ (c.op = "clear_entries" /\ c.raised = <<>>)

----------------------------------------------------------------------------
(* Claims about registered tables (SpecRegistry)                           *)

\* the tables the registry holds
Registered == {n \in TableNames : m_tables[n] # NoTable}

\* C27: once add_table succeeded for a description with name N and key
\* type K, the registry holds a table N of key type K from then on; every
\* list_tables, by any owner, reports one info for each registered table and
\* no other, (N, K) among them; and every get_table(N, K), by any owner,
\* returns a non-null handle
C27_RegisteredTableIsVisible ==
    [][/\ (call'.op = "add_table" /\ call'.rc = "SUCCESS")
          => /\ m_tables[call'.name] = NoTable
             /\ m_tables'[call'.name].impl = "plugin"
             /\ typeinfo_to_state_type(m_tables'[call'.name].key_info)
                   = call'.key_type
       /\ \A n \in Registered : m_tables'[n] = m_tables[n]
       /\ call'.op = "list_tables"
          => /\ Len(call'.infos) = Cardinality(Registered)
             /\ \A n \in Registered :
                   \E i \in 1..Len(call'.infos) :
                       /\ call'.infos[i] =
                             [name |-> n, key_type |-> DeclaredKeyType(n)]
                       /\ \A j \in 1..Len(call'.infos) :
                             call'.infos[j].name = n => j = i
       /\ (/\ call'.op = "get_table"
           /\ m_tables[call'.name].impl = "plugin"
           /\ call'.key_type = DeclaredKeyType(call'.name))
          => call'.ret # NullHandle]_vars

\* a plugin lists the tables after another plugin registered its table: the
\* host's table and the plugin's are reported
C27_Witness ==
    /\ call.op = "list_tables"
    /\ Len(call.infos) = 2
    /\ \E n \in TableNames :
          /\ m_tables[n].impl = "plugin"
          /\ m_tables[n].owner # call.owner
          /\ m_accessed_tables[call.owner][n] # NoWrapper

----------------------------------------------------------------------------
(* Claims about the messages of get_table_field (SpecFields)               *)

\* C28: when get_table_field fails on a host-owned table because the
\* requested type is not the declared type of the existing field of that
\* name, static or dynamic, the caller's last error reports the type
\* incompatibility and not an undefined field
C28_MismatchReportsTypeError ==
    (/\ call.op = "get_table_field"
     /\ call.ret = Null
     /\ call.data_type \in StateTypes
     /\ DeclaredFieldTypes(dyn_fields, call.name) # {}
     /\ call.data_type \notin DeclaredFieldTypes(dyn_fields, call.name))
    => m_last_owner_err[Caller] = "incompatible data types for field"

----------------------------------------------------------------------------
(* Claims about entries the host's table refuses (SpecEntriesRefused)      *)

\* C29: when add_table_entry on a host-owned table returns null for a
\* detached entry, the entry is not in the table and has not been
\* destroyed: it is still detached, and the table is as it was
C29_FailedAddKeepsEntry ==
    [][(/\ call'.op = "add_table_entry"
        /\ heap[call'.entry].st = "detached"
        /\ call'.ret = NoEntry)
       => (/\ heap'[call'.entry].st = "detached"
           /\ entries' = entries
           /\ \A k \in Keys : entries'[k] # call'.entry)]_vars

----------------------------------------------------------------------------
(* Claims about the dispatch on the key type (SpecKeyed)                   *)

\* the key type the host's table was registered with
HostKeyType == typeinfo_to_state_type(m_tables[HostTable].key_info)

\* C30: on a host-owned table of any key type, the key type recorded in
\* the handle is the table's; get_table_entry, erase_table_entry and
\* add_table_entry act on the key their caller stored in the union member
\* of that key type, and create_table_entry is dispatched without a fault
C30_KeyReadFromMatchingMember ==
    [][/\ call'.op \in {"get_table_entry", "erase_table_entry",
                       "add_table_entry", "create_table_entry"}
          => /\ m_accessed_tables[Caller][HostTable].m_key_type = HostKeyType
             /\ call'.raised = <<>>
       /\ call'.op \in {"get_table_entry", "erase_table_entry", "add_table_entry"}
          => /\ call'.data.member = UnionMember(HostKeyType)
             /\ call'.data.v = <<call'.key>>
       /\ call'.op = "get_table_entry" => call'.ret = entries[call'.key]
       /\ call'.op = "erase_table_entry"
          => /\ call'.rc = EraseRc(entries[call'.key] # NoEntry)
             /\ entries' = [entries EXCEPT ![call'.key] = NoEntry]
       /\ (call'.op = "add_table_entry" /\ call'.ret # NoEntry)
          => entries' = [entries EXCEPT ![call'.key] = call'.entry]
       /\ call'.op = "create_table_entry"
          => (call'.ret # NoEntry /\ heap'[call'.ret].st = "detached")]_vars

\* an entry added to a table with string keys is found under its key
C30_Witness ==
    /\ HostKeyType = "ST_STRING"
    /\ call.op = "get_table_entry"
    /\ call.data.member = "str"
    /\ call.ret # NoEntry

----------------------------------------------------------------------------
(* Claims about the field list of a host-owned table (SpecFields)          *)

\* the descriptors list_table_fields may report
Descriptors ==
    [name : FieldNames, field_type : StateTypes, read_only : BOOLEAN]

\* how many fields of the table a descriptor describes
FieldsDescribedBy(d, dyn) ==
    Cardinality({n \in DOMAIN StaticFields :
                    /\ d.name = n
                    /\ d.field_type = typeinfo_to_state_type(StaticFields[n].info)
                    /\ d.read_only = StaticFields[n].readonly})
    + Cardinality({j \in 1..Len(dyn) :
                    /\ d.name = dyn[j].name
                    /\ d.field_type = typeinfo_to_state_type(dyn[j].info)
                    /\ ~d.read_only})

\* C31: list_table_fields on a host-owned table reports as many descriptors
\* as the table has static and dynamic fields, each field once with its
\* declared type, and the field a successful add_table_field named is in
\* the list the next list_table_fields returns
C31_ListReportsEveryField ==
    [][call'.op = "list_table_fields"
       => /\ Len(call'.infos) = Cardinality(DOMAIN StaticFields) + Len(dyn_fields)
          /\ \A i \in 1..Len(call'.infos) : call'.infos[i] \in Descriptors
          /\ \A d \in Descriptors :
                Cardinality({i \in 1..Len(call'.infos) : call'.infos[i] = d})
                   = FieldsDescribedBy(d, dyn_fields)
          /\ (call.op = "add_table_field" /\ call.ret # Null)
                => \E i \in 1..Len(call'.infos) :
                      /\ call'.infos[i].name = call.name
                      /\ call'.infos[i].field_type = call.data_type]_vars

\* the list right after add_table_field added a second dynamic field
C31_Witness ==
    /\ call.op = "list_table_fields"
    /\ Len(dyn_fields) = 2
    /\ Len(call.infos) = 3
    /\ \E i \in 1..3 : call.infos[i].name = "x" /\ call.infos[i].field_type = "ST_INT64"

----------------------------------------------------------------------------
(* Claims about the entries wrappers own (SpecAdapter)                     *)

\* the wrappers that own the given entry of the plugin's table
OwningWrappers(e) ==
    {w \in WrapperIds :
        wrappers[w].live /\ wrappers[w].m_destroy_entry /\ wrappers[w].m_entry = e}

\* C32: an entry new_entry obtained from the owner and that is neither
\* inserted nor destroyed is owned by exactly one wrapper, which will hand
\* it to the owner's destroy function: no such entry is left without an
\* owning wrapper, whatever moves, move assignments and failed add_entry
\* calls took place
C32_DetachedEntryHasOneOwner ==
    \A e \in OwnerEntryIds :
        p_heap[e].st = "detached" => Cardinality(OwningWrappers(e)) = 1

----------------------------------------------------------------------------
(* Claims about the handles of the adapter's fields (SpecAdapterFields)    *)

\* the indexes of the definitions the adapter holds
DefinedIndexes(af) == 0..(Len(af) - 1)

\* C33: after a successful fields() or add_field on the adapter of a
\* plugin-owned table every definition the adapter holds has a handle at
\* its index, and no handle lies beyond the definitions; a handle once held
\* stays; and get_dynamic_field / set_dynamic_field hand the owner the
\* handle of the field the descriptor names, with that field's type
C33_DescriptorsHaveHandles ==
    [][/\ (call'.op \in {"fields", "add_field"} /\ call'.raised = <<>>)
          => a_accessors' = DefinedIndexes(a_fields')
       /\ a_accessors \subseteq a_accessors'
       /\ a_accessors' \subseteq DefinedIndexes(a_fields')
       /\ call'.op \in {"get_dynamic_field", "set_dynamic_field"}
          => /\ DynFind(a_fields, call'.field) # 0
             /\ (DynFind(a_fields, call'.field) - 1) \in a_accessors
             /\ Len(call'.foreign) = 1
             /\ call'.foreign[1].field = call'.field
             /\ call'.foreign[1].field_type =
                   typeinfo_to_state_type(
                       a_fields[DynFind(a_fields, call'.field)].info)]_vars

\* a field the host added through the adapter is written on an entry
C33_Witness ==
    /\ call.op = "set_dynamic_field"
    /\ call.raised = <<>>
    /\ a_accessors = DefinedIndexes(a_fields)
    /\ Len(a_fields) = 1

----------------------------------------------------------------------------
(* Claims about repeated get_table calls (SpecRegistry)                    *)

\* C34: get_table makes an adapter for an owner and a name only while the
\* owner holds none for that name; once it holds one, every get_table of
\* that owner for that name returns that handle and makes nothing, and no
\* get_table, for this or another name, changes or removes an adapter an
\* owner holds
C34_GetTableIdempotent ==
    [][/\ call'.op = "get_table"
          => /\ call'.created
                  => m_accessed_tables[call'.owner][call'.name] = NoWrapper
             /\ m_accessed_tables[call'.owner][call'.name] # NoWrapper
                  => /\ ~call'.created
                     /\ call'.ret = AccessedInput(call'.owner, call'.name)
             /\ call'.ret # NullHandle
                  => m_accessed_tables'[call'.owner][call'.name] # NoWrapper
       /\ \A p \in Plugins, n \in TableNames :
             m_accessed_tables[p][n] # NoWrapper
                => m_accessed_tables'[p][n] = m_accessed_tables[p][n]]_vars

\* an owner that holds handles to both tables asks again for one of them
C34_Witness ==
    /\ call.op = "get_table"
    /\ ~call.created
    /\ call.ret # NullHandle
    /\ \A n \in TableNames : m_accessed_tables[call.owner][n] # NoWrapper

----------------------------------------------------------------------------
(* Claims about add_table_field on an existing name (SpecFields)           *)

\* add_table_field named a dynamic field of the type it was called with
AddsExistingSameType(c) ==
    /\ c.op = "add_table_field"
    /\ DynFind(dyn_fields, c.name) # 0
    /\ c.data_type =
          typeinfo_to_state_type(dyn_fields[DynFind(dyn_fields, c.name)].info)

\* add_table_field named a dynamic field of another type
AddsExistingOtherType(c) ==
    /\ c.op = "add_table_field"
    /\ DynFind(dyn_fields, c.name) # 0
    /\ c.data_type #
          typeinfo_to_state_type(dyn_fields[DynFind(dyn_fields, c.name)].info)

\* the call succeeded, the fields are as they were, and the accessor handed
\* back is the one cached under the name, made by this call if none was
SameAccessorNoNewField(c) ==
    /\ c.ret = c.name
    /\ dyn_fields' = dyn_fields
    /\ m_field_accessors'[c.name] # NoAccessor
    /\ m_field_accessors[c.name] # NoAccessor
          => m_field_accessors'[c.name] = m_field_accessors[c.name]
    /\ m_field_accessors[c.name] = NoAccessor
          => m_field_accessors'[c.name] =
                [dynamic |-> TRUE, data_type |-> c.data_type,
                 index |-> DynFind(dyn_fields, c.name) - 1]

\* C35, as stated: add_table_field for a name that exists as a dynamic
\* field succeeds with the accessor of that field and adds nothing when the
\* type is the field's, and fails with the fields unchanged when it is not
C35_AddExistingField ==
    [][/\ AddsExistingSameType(call') => SameAccessorNoNewField(call')
       /\ AddsExistingOtherType(call')
          => (call'.ret = Null /\ dyn_fields' = dyn_fields)]_vars

\* C35, amended: the same, for a name that is not also a static field; for
\* a name that is also static the call fails and the fields are unchanged
C35_AddExistingDynamicOnly ==
    [][/\ (AddsExistingSameType(call') /\ ~IsStaticField(call'.name))
          => SameAccessorNoNewField(call')
       /\ (AddsExistingSameType(call') /\ IsStaticField(call'.name))
          => (call'.ret = Null /\ dyn_fields' = dyn_fields)
       /\ AddsExistingOtherType(call')
          => (call'.ret = Null /\ dyn_fields' = dyn_fields)]_vars

\* add_table_field was called again for a dynamic field whose accessor is
\* cached, and returned it
C35_Witness ==
    /\ call.op = "add_table_field"
    /\ call.ret = "x"
    /\ call.infos = <<>>
    /\ DynFind(dyn_fields, "x") # 0
    /\ m_field_accessors["x"].dynamic

----------------------------------------------------------------------------
(* Claims about strings read from a plugin's entries (SpecStrings)         *)

\* C36: a read of a string field of a plugin-owned table gives the host
\* the empty string when the owner left a null pointer or an empty string,
\* and the owner's string unchanged when it is not empty
C36_NullStringReadsEmpty ==
    [][(/\ call'.op = "get_dynamic_field"
        /\ call'.raised = <<>>
        /\ call'.foreign[1].field_type = "ST_STRING")
       => LET from == call'.foreign[1].value IN
          /\ from \in OwnerStrings
          /\ (from.null \/ from.chars = "") => call'.value = ""
          /\ (~from.null /\ from.chars # "") => call'.value = from.chars]_vars

\* the owner answered the read of a string field with a null pointer
C36_Witness ==
    /\ call.op = "get_dynamic_field"
    /\ call.raised = <<>>
    /\ call.foreign[1].value.null
    /\ call.value = ""

----------------------------------------------------------------------------
(* The metrics collector (userspace/libsinsp/metrics_collector.cpp):       *)
(* libs_metrics_collector                                                  *)

MaxSnapshots == 2

\* the most entries libscap leaves in its statistics buffer
MaxStats == 2

\* the most plugins the inspector's plugin manager holds
MaxPlugins == 2

\* the flags snapshot() gathers the libscap statistics for
ScapFlags ==
    {"METRICS_V2_KERNEL_COUNTERS", "METRICS_V2_LIBBPF_STATS",
     "METRICS_V2_KERNEL_COUNTERS_PER_CPU"}

\* the bits of m_metrics_flags that snapshot() tests
MetricsFlags ==
    ScapFlags \cup {"METRICS_V2_RESOURCE_UTILIZATION", "METRICS_V2_STATE_COUNTERS",
                    "METRICS_V2_PLUGINS"}

\* a sinsp instance, and its sinsp_stats_v2
Inspector == "sinsp"

SinspStats == "sinsp_stats_v2"

\* new_metric(name, flags, ...): a metrics_v2 entry; its value is the reading
\* taken when it was built
new_metric(name, flags, value) == [name |-> name, flags |-> flags, value |-> value]

\* the buffer get_capture_stats_v2 points at: nstats entries of one of the
\* requested libscap categories
ScapStats(flag, nstats, now) == [i \in 1..nstats |-> new_metric("scap", flag, now)]

\* libs_resource_utilization::to_metrics (the first two of its entries)
ResourceUtilizationToMetrics(now) ==
    <<new_metric("cpu_usage_perc", "METRICS_V2_RESOURCE_UTILIZATION", now),
      new_metric("memory_rss_kb", "METRICS_V2_RESOURCE_UTILIZATION", now)>>

\* libs_state_counters::to_metrics: the thread and fd counts, and the
\* counters of sinsp_stats_v2 (the first of them) when there is one
StateCountersToMetrics(stats, now) ==
    LET metrics == <<new_metric("n_threads", "METRICS_V2_STATE_COUNTERS", now),
                     new_metric("n_fds", "METRICS_V2_STATE_COUNTERS", now)>>
    IN IF stats = Null
       THEN metrics
       ELSE metrics \o <<new_metric("n_noncached_fd_lookups",
                                    "METRICS_V2_STATE_COUNTERS", now)>>

\* sinsp_plugin::get_metrics of every plugin of the plugin manager, one
\* entry each
PluginsMetrics(nplugins, now) ==
    [i \in 1..nplugins |-> new_metric("plugin", "METRICS_V2_PLUGINS", now)]

\* a faulty test of the flags that finds every bit set
FlagSet_Any(flags, mask) == TRUE

\* m_metrics_flags & mask
FlagSet(flags, mask) == flags \cap mask # {}

\* a faulty start of snapshot() that keeps the list
Cleared_Kept(metrics) == metrics

\* m_metrics.clear()
Cleared(metrics) == <<>>

\* libs_metrics_collector::snapshot: the list it leaves in m_metrics. scap is
\* what get_capture_stats_v2 answers: the buffer pointer, nstats and rc
Snapshot(metrics, inspector, stats, flags, scap, nplugins, now) ==
    LET cleared == Cleared(metrics)
        with_scap ==
            IF /\ FlagSet(flags, ScapFlags)
               /\ scap.ptr /\ scap.nstats > 0 /\ scap.rc = 0
            THEN ScapStats(scap.flag, scap.nstats, now)
            ELSE cleared
        with_ru ==
            IF FlagSet(flags, {"METRICS_V2_RESOURCE_UTILIZATION"})
            THEN with_scap \o ResourceUtilizationToMetrics(now)
            ELSE with_scap
        with_sc ==
            IF FlagSet(flags, {"METRICS_V2_STATE_COUNTERS"})
            THEN with_ru \o StateCountersToMetrics(stats, now)
            ELSE with_ru
        with_plugins ==
            IF FlagSet(flags, {"METRICS_V2_PLUGINS"})
            THEN with_sc \o PluginsMetrics(nplugins, now)
            ELSE with_sc
    IN IF inspector = Null THEN cleared ELSE with_plugins

\* libs_metrics_collector::libs_metrics_collector: m_sinsp_stats_v2
CollectorStats(inspector, stats) == IF inspector # Null THEN stats ELSE Null

\* what the collector's calls leave alone
nonCollectorVars == <<regVars, m_last_owner_err, fieldVars, entryVars, pluginVars>>

\* libs_metrics_collector::snapshot
SnapshotStep ==
    /\ snapshots < MaxSnapshots
    /\ \E ptr \in BOOLEAN, nstats \in 0..MaxStats, rc \in {0, -1},
          flag \in ScapFlags, nplugins \in 0..MaxPlugins :
        LET scap == [ptr |-> ptr, nstats |-> nstats, rc |-> rc, flag |-> flag] IN
        \* libscap reports on a category it was asked for
        /\ (m_metrics_flags \cap ScapFlags # {}) => flag \in m_metrics_flags
        /\ snapshots' = snapshots + 1
        /\ m_metrics' = Snapshot(m_metrics, m_inspector, m_sinsp_stats_v2,
                                 m_metrics_flags, scap, nplugins, snapshots + 1)
        /\ call' = [op |-> "snapshot", scap |-> scap, nplugins |-> nplugins]
    /\ UNCHANGED <<m_inspector, m_metrics_flags, m_sinsp_stats_v2, nonCollectorVars>>

\* libs_metrics_collector::get_metrics
GetMetricsStep ==
    /\ call' = [op |-> "get_metrics", ret |-> m_metrics]
    /\ UNCHANGED <<collectorVars, nonCollectorVars>>

\* a collector constructed on an inspector, or on none, with any flags
InitCollector ==
    /\ \E inspector \in {Null, Inspector}, stats \in {Null, SinspStats} :
        /\ m_inspector = inspector
        /\ m_sinsp_stats_v2 = CollectorStats(inspector, stats)
    /\ m_metrics_flags \in SUBSET MetricsFlags
    /\ m_metrics = <<>>
    /\ snapshots = 0
    /\ p_fields = <<>>
    /\ p_entries = [k \in Keys |-> NoEntry]
    /\ p_heap = [e \in OwnerEntryIds |-> UnusedOwnerEntry]
    /\ host_freed = {}
    /\ aborted = FALSE
    /\ a_fields = <<>>
    /\ a_accessors = {}
    /\ wrappers = [w \in WrapperIds |-> NoWrapperObject]
    /\ m_tables = [n \in TableNames |->
                     IF n = HostTable THEN NativeTable("PT_INT64") ELSE NoTable]
    /\ unloaded = {}
    /\ m_owned_tables = [p \in Plugins |-> {}]
    /\ m_accessed_tables = [p \in Plugins |-> [n \in TableNames |-> NoWrapper]]
    /\ m_last_owner_err = [p \in Plugins |-> ""]
    /\ dyn_fields = <<>>
    /\ m_field_accessors = [n \in FieldNames |-> NoAccessor]
    /\ entries = [k \in Keys |-> NoEntry]
    /\ heap = [e \in EntryIds |-> UnusedEntry]
    /\ written = [e \in EntryIds |-> [n \in FieldNames |-> <<>>]]
    /\ call = NoCall

NextCollector ==
    \/ SnapshotStep
    \/ GetMetricsStep

SpecCollector == InitCollector /\ [][NextCollector]_vars

----------------------------------------------------------------------------
(* Claims about the metrics collector (SpecCollector)                      *)

\* C37: whatever snapshot() calls were made, every entry of the collector's
\* list was gathered by the latest of them, and the list of a collector
\* without an inspector is empty
C37_OnlyLatestSnapshot ==
    /\ m_inspector = Null => m_metrics = <<>>
    /\ \A i \in DOMAIN m_metrics : m_metrics[i].value = snapshots

\* a second snapshot that did not take the libscap buffer left entries
C37_Witness ==
    /\ call.op = "snapshot"
    /\ snapshots = 2
    /\ m_metrics_flags \cap ScapFlags = {}
    /\ m_metrics # <<>>

\* the category of an entry, and the place of the category in a snapshot
Category(metric) ==
    CASE metric.flags \in ScapFlags -> 1
      [] metric.flags = "METRICS_V2_RESOURCE_UTILIZATION" -> 2
      [] metric.flags = "METRICS_V2_STATE_COUNTERS" -> 3
      [] metric.flags = "METRICS_V2_PLUGINS" -> 4

\* the flags that ask for a category
CategoryFlags(category) ==
    CASE category = 1 -> ScapFlags
      [] category = 2 -> {"METRICS_V2_RESOURCE_UTILIZATION"}
      [] category = 3 -> {"METRICS_V2_STATE_COUNTERS"}
      [] category = 4 -> {"METRICS_V2_PLUGINS"}

\* C38: the list holds entries of a category only if a flag of that
\* category is set in the collector's flags, and the categories follow one
\* another in the order libscap statistics, resource utilization, state
\* counters, plugin metrics
C38_CategoriesGatedAndOrdered ==
    /\ \A i \in DOMAIN m_metrics :
        CategoryFlags(Category(m_metrics[i])) \cap m_metrics_flags # {}
    /\ \A i, j \in DOMAIN m_metrics :
        i < j => Category(m_metrics[i]) <= Category(m_metrics[j])

\* a snapshot with three categories, the state counters left out
C38_Witness ==
    /\ call.op = "snapshot"
    /\ "METRICS_V2_STATE_COUNTERS" \notin m_metrics_flags
    /\ {Category(m_metrics[i]) : i \in DOMAIN m_metrics} = {1, 2, 4}

----------------------------------------------------------------------------
(* prometheus_sanitize_metric_name (metrics_collector.cpp)                 *)

MaxNameLen == 4

\* one character of each kind the function tells apart: a letter, a digit,
\* the underscore, the colon, and a character outside [a-zA-Z0-9_:]
Letters == {"a"}

ValidChars == Letters \cup {"1", "_", ":"}

Chars == ValidChars \cup {"-"}

RECURSIVE NamesOfLen(_)
NamesOfLen(n) ==
    IF n = 0 THEN {<<>>}
    ELSE {<<c>> \o s : c \in Chars, s \in NamesOfLen(n - 1)}

\* the metric names given to the function
Names == UNION {NamesOfLen(n) : n \in 0..MaxNameLen}

\* RE2::GlobalReplace(&sanitized_name, invalid_chars, "_")
ReplaceInvalidChars(name) ==
    [i \in 1..Len(name) |-> IF name[i] \in ValidChars THEN name[i] ELSE "_"]

\* a faulty second replacement that leaves the runs of underscores
CollapseUnderscores_Kept(name) == name

\* RE2::GlobalReplace(&sanitized_name, "_+", "_"): every run of underscores
\* becomes one underscore
RECURSIVE CollapseUnderscores(_)
CollapseUnderscores(name) ==
    IF Len(name) <= 1 THEN name
    ELSE IF name[1] = "_" /\ name[2] = "_"
         THEN CollapseUnderscores(Tail(name))
         ELSE <<name[1]>> \o CollapseUnderscores(Tail(name))

\* std::isalpha
IsAlpha(c) == c \in Letters

prometheus_sanitize_metric_name(name) ==
    LET sanitized_name == CollapseUnderscores(ReplaceInvalidChars(name)) IN
    IF sanitized_name = <<>>
       \/ (~IsAlpha(sanitized_name[1]) /\ sanitized_name[1] # "_")
    THEN <<"_">> \o sanitized_name
    ELSE sanitized_name

\* a caller holds a metric name
InitSanitize ==
    /\ InitEngine
    /\ call \in {[op |-> "name", ret |-> name] : name \in Names}

\* a call of prometheus_sanitize_metric_name on the name the caller holds,
\* which is the result of the previous call if there was one
SanitizeStep ==
    /\ call.op \in {"name", "sanitize"}
    /\ call' = [op |-> "sanitize", name |-> call.ret,
                ret |-> prometheus_sanitize_metric_name(call.ret)]
    /\ UNCHANGED <<collectorVars, nonCollectorVars>>

NextSanitize == SanitizeStep

SpecSanitize == InitSanitize /\ [][NextSanitize]_vars

\* C39: the name prometheus_sanitize_metric_name returns is not empty, starts
\* with a letter or an underscore, holds only characters of [a-zA-Z0-9_:]
\* and no two underscores in a row; called on a name it returned, it returns
\* that name
C39_SanitizedNameIsValid ==
    /\ [](call.op = "sanitize" =>
            /\ call.ret # <<>>
            /\ (call.ret[1] \in Letters \/ call.ret[1] = "_")
            /\ \A i \in DOMAIN call.ret : call.ret[i] \in ValidChars
            /\ \A i \in DOMAIN call.ret :
                i > 1 => ~(call.ret[i - 1] = "_" /\ call.ret[i] = "_"))
    /\ [][(call.op = "sanitize" /\ call'.op = "sanitize" /\ call'.name = call.ret)
          => call'.ret = call.ret]_vars

\* a name that needed every step of the function, and the same name given
\* to the function again
C39_Witness ==
    /\ call.op = "sanitize"
    /\ call.name = <<"_", "1", "_", "a">>
    /\ call.ret = call.name
    /\ prometheus_sanitize_metric_name(<<"1", "-", "_", "a">>) = call.name

====
